---- MODULE Spec2Model ----
(***************************************************************************)
(* SourceScout: the live-scrape job orchestrator (server/routes.ts) and    *)
(* the browser-driving agents it runs (server/computerUseAgent.ts).        *)
(*                                                                         *)
(* Node runs one task at a time and a task runs until it awaits.  Every    *)
(* action below is one such run: from the resumption of an await to the    *)
(* next await that depends on the outside world (browser, decision model,  *)
(* database).  The outcome of the awaited operation is the action's input. *)
(* The POST handler's continuation is cut in three consecutive actions     *)
(* (register, respond, start); `lock` keeps every other action out until   *)
(* the third has run, as the event loop does.                              *)
(***************************************************************************)
EXTENDS Integers, Sequences, FiniteSets, TLC

VARIABLES
    activeScrapeJobs,   \* routes.ts:386  job id -> {status, logs, results} | NoJob
    orch,               \* per job: position of POST /api/scrape/live + runLiveScrapeJob
    agent,              \* per (job, source): the scraping agent and its coroutine
    uuid,               \* per job: number of randomUUID() values drawn for its log
    lock,               \* job whose POST continuation is in mid-run, or 0
    httpReply,          \* per job: the reply POST /api/scrape/live has sent, or NoReply
    fuel,               \* function calls the decision step may still propose
    baseAgent,          \* a ComputerUseAgent used on its own (runTask), or NoAgent
    scraper,            \* a scraping agent whose search entry point several callers use
    executor,           \* one executeAction call and the primitives it has issued
    polls,              \* status and logs requests served so far
    client,             \* the page of the browser client: its log panel and its polls
    rejected            \* the replies to the start requests that were turned down

vars == <<activeScrapeJobs, orch, agent, uuid, lock, httpReply, fuel, baseAgent,
          scraper, executor, polls, client, rejected>>

---------------------------------------------------------------------------
(* Bounds of the model *)

\* job ids the model issues
MaxJobs == 2
\* the requests the model accepts: the sum of their source counts, a request
\* without sources counting as one
MaxLoad == 2
\* function calls one decision response may carry
MaxCalls == 2
\* function calls the decision step proposes over a run of the model
MaxProposed == 2
\* runs of runTask on the agent used on its own
MaxRuns == 1
\* calls of runTask made while a run of the agent is under way
MaxRefused == 1
\* records the extraction step may return
MaxExtract == 2
\* status and logs requests the model serves
MaxPolls == 1
MaxCap == 1
\* start requests that are turned down
MaxRejected == 2
\* status requests the client's timer sends for one search
MaxClientPolls == 3

(* Program constants *)

\* computerUseAgent.ts:571, 711  for (let turn = 0; turn < 15; turn++)
ScraperTurns == 15
\* computerUseAgent.ts:59  private maxTurns: number = 15
DefaultMaxTurns == 15
\* computerUseAgent.ts:515, 656  maxProducts / maxSuppliers default
DefaultMaxRecords == 5
\* computerUseAgent.ts:14, 15
SCREEN_WIDTH == 1440
SCREEN_HEIGHT == 900
\* computerUseAgent.ts:45, 49  the range of a normalised coordinate, `x / 1000`
NormRange == 1000

Jobs == 1 .. MaxJobs
\* routes.ts:383  z.enum(["alibaba", "thomasnet"]); routes.ts:488, 527 fix the order
Sources == <<"alibaba", "thomasnet">>
SourceSet == {Sources[k] : k \in 1 .. Len(Sources)}
NoJob == [status |-> "absent", logs |-> <<>>, results |-> <<>>]
NoReply == [code |-> 0, jobId |-> 0]
NoPoll == [endpoint |-> "none", jobId |-> 0, code |-> 0, status |-> "none",
           logs |-> <<>>, results |-> <<>>]

\* computerUseAgent.ts:511, 652  super("Alibaba Scraper" | "ThomasNet Scraper", ...)
AgentName(s) == IF s = "alibaba" THEN "Alibaba Scraper" ELSE "ThomasNet Scraper"

---------------------------------------------------------------------------
(* Sequences *)

IsPrefix(s, t) == Len(s) <= Len(t) /\ \A k \in 1 .. Len(s) : s[k] = t[k]

Take(s, n) == [k \in 1 .. (IF n < Len(s) THEN n ELSE Len(s)) |-> s[k]]

RECURSIVE Flat(_)
\* Array.prototype.flat() over the per-source result arrays (routes.ts:567)
Flat(ss) == IF ss = <<>> THEN <<>> ELSE Head(ss) \o Flat(Tail(ss))

---------------------------------------------------------------------------
(* JavaScript Number arithmetic as denormalizeX / denormalizeY use it       *)
(* (computerUseAgent.ts:44-50): a Number is an IEEE 754 binary64 value, `/` *)
(* and `*` round their exact result to 53 significant bits, ties to the     *)
(* even mantissa; Math.round is floor(v + 1/2) of the value it is given.    *)
(* A positive Number is kept as its significant bits, first bit 1, most     *)
(* significant first, and the exponent of the last bit; zero is Zero.       *)

\* significant bits of a binary64 value
Significand == 53
\* the bits the model multiplies at a time
Limb == 14

Zero == [bits |-> <<>>, exp |-> 0]

\* the natural number with these binary digits, fewer than 31
RECURSIVE Natural(_)
Natural(bits) ==
    IF bits = <<>> THEN 0
    ELSE 2 * Natural(SubSeq(bits, 1, Len(bits) - 1)) + bits[Len(bits)]

\* the last `width` binary digits of a natural number
Digits(n, width) == [k \in 1 .. width |-> (n \div 2^(width - k)) % 2]

\* the binary digits of a natural number below 2^30, first digit 1
Binary(n) == Digits(n, CHOOSE width \in 0 .. 30 : 2^width > n /\ (width = 0 \/ 2^(width - 1) <= n))

\* bits + 1
Increment(bits) ==
    LET zeros == {k \in 1 .. Len(bits) : bits[k] = 0}
    IN  IF zeros = {} THEN <<1>> \o [k \in 1 .. Len(bits) |-> 0]
        ELSE LET last == CHOOSE k \in zeros : \A m \in zeros : m <= k
             IN  [k \in 1 .. Len(bits) |->
                    IF k < last THEN bits[k] ELSE IF k = last THEN 1 ELSE 0]

\* the exact value bits * 2^exp, with `more` telling whether the exact value has
\* further nonzero bits below, rounded to Significand bits, ties to even
RoundToNearest(bits, exp, more) ==
    IF Len(bits) <= Significand THEN [bits |-> bits, exp |-> exp]
    ELSE LET kept == SubSeq(bits, 1, Significand)
             dropped == SubSeq(bits, Significand + 1, Len(bits))
             e == exp + Len(dropped)
             sticky == more \/ \E k \in 2 .. Len(dropped) : dropped[k] = 1
             up == dropped[1] = 1 /\ (sticky \/ kept[Significand] = 1)
             sum == Increment(kept)
         IN  IF ~up THEN [bits |-> kept, exp |-> e]
             ELSE IF Len(sum) > Significand
             THEN [bits |-> SubSeq(sum, 1, Significand), exp |-> e + 1]
             ELSE [bits |-> sum, exp |-> e]

\* 2^k modulo d, d < 2^15
RECURSIVE PowerMod(_, _)
PowerMod(k, d) ==
    IF k = 0 THEN 1 % d
    ELSE LET half == PowerMod(k \div 2, d)
         IN  (half * half * (IF k % 2 = 1 THEN 2 ELSE 1)) % d

\* the remainder of long division x / d after the bit of weight 2^-k
Remainder(x, d, k) == (x * PowerMod(k, d)) % d

\* the bit of weight 2^-k of x / d, 0 < x < d, k >= 1
QuotientBit(x, d, k) == IF 2 * Remainder(x, d, k - 1) >= d THEN 1 ELSE 0

\* x / d for integers 0 <= x <= d < 2^15: the quotient's bits from its first 1 on,
\* one more than a significand holds, rounded
Divide(x, d) ==
    IF x = 0 THEN Zero
    ELSE IF x = d THEN [bits |-> [k \in 1 .. Significand |-> IF k = 1 THEN 1 ELSE 0],
                        exp |-> 1 - Significand]
    ELSE LET first == CHOOSE k \in 1 .. 15 :
                        /\ QuotientBit(x, d, k) = 1
                        /\ \A m \in 1 .. k - 1 : QuotientBit(x, d, m) = 0
             last == first + Significand
         IN  RoundToNearest([k \in 1 .. Significand + 1 |->
                                QuotientBit(x, d, first + k - 1)],
                            -last, Remainder(x, d, last) # 0)

\* the exact product bits * w of a significand and an integer 0 < w < 2^15, taken
\* limb by limb from the last bit with the carry going up
Product(bits, w) ==
    LET limb(i) == Natural(SubSeq(bits, IF Len(bits) - i * Limb - Limb + 1 > 1
                                        THEN Len(bits) - i * Limb - Limb + 1 ELSE 1,
                                  Len(bits) - i * Limb))
        p0 == limb(0) * w
        p1 == limb(1) * w + p0 \div 2^Limb
        p2 == limb(2) * w + p1 \div 2^Limb
        p3 == limb(3) * w + p2 \div 2^Limb
    IN  Binary(p3) \o Digits(p2 % 2^Limb, Limb) \o Digits(p1 % 2^Limb, Limb)
            \o Digits(p0 % 2^Limb, Limb)

\* v * w for a Number v and an integer w > 0
Multiply(v, w) ==
    IF v = Zero THEN Zero ELSE RoundToNearest(Product(v.bits, w), v.exp, FALSE)

\* Math.round(v) for a Number 0 <= v < 2^30: the integer part of v, plus one when the
\* bit of weight 1/2 is set
MathRound(v) ==
    LET whole == Len(v.bits) + v.exp
    IN  IF v = Zero \/ whole < 0 THEN 0
        ELSE IF v.exp >= 0 THEN Natural(v.bits \o [k \in 1 .. v.exp |-> 0])
        ELSE Natural(SubSeq(v.bits, 1, whole)) + v.bits[whole + 1]

\* computerUseAgent.ts:44-46  Math.round((x / 1000) * screenWidth)
denormalizeX(x, screenWidth) == MathRound(Multiply(Divide(x, NormRange), screenWidth))

\* computerUseAgent.ts:48-50  Math.round((y / 1000) * screenHeight)
denormalizeY(y, screenHeight) == MathRound(Multiply(Divide(y, NormRange), screenHeight))

---------------------------------------------------------------------------
(* Inputs from the outside world *)

\* the switch of executeAction knows these names (computerUseAgent.ts:147-253)
KnownActions == {"open_web_browser", "navigate", "click_at", "type_text_at", "hover_at",
                 "scroll_document", "scroll_at", "key_combination", "go_back",
                 "go_forward", "wait_5_seconds", "search", "drag_and_drop"}
\* of which this one invokes no browser primitive before the page settles
NoPrimitive == {"open_web_browser"}
\* the names the decision step proposes in the model: one with a primitive, one
\* without, one the switch does not know
FunctionCalls ==
    {[name |-> "click_at", safety |-> "none"],
     [name |-> "open_web_browser", safety |-> "none"],
     [name |-> "select_option", safety |-> "none"],
     [name |-> "click_at", safety |-> "require_confirmation"]}

\* a text part is the set of sentinel words it contains; "" is no text part
Silent == <<>>
Sentinel == <<{"DONE"}>>
LowerCase == <<{"done"}>>

CallSeqs(n) == UNION {[1 .. k -> FunctionCalls] : k \in 0 .. n}

\* what callModel resolves to (computerUseAgent.ts:401-418)
ModelResponses(n) ==
    {[kind |-> "throw", text |-> Silent, calls |-> <<>>],
     [kind |-> "null", text |-> Silent, calls |-> <<>>],
     [kind |-> "content", text |-> Sentinel, calls |-> <<>>]}
    \cup [kind : {"content"}, text : {Silent}, calls : CallSeqs(n)]
    \cup [kind : {"content"}, text : {Sentinel, LowerCase}, calls : CallSeqs(n) \ {<<>>}]

\* With more than MaxProposed calls to come the run is a long one: the decision step
\* proposes one plain click per turn (or stops) and the click settles.  This is how
\* the model reaches a loop's turn limit.
SteadyResponses ==
    {[kind |-> "throw", text |-> Silent, calls |-> <<>>],
     [kind |-> "null", text |-> Silent, calls |-> <<>>],
     [kind |-> "content", text |-> Sentinel, calls |-> <<>>],
     [kind |-> "content", text |-> Silent,
      calls |-> <<[name |-> "click_at", safety |-> "none"]>>]}

\* the decision step's answers with `left` calls still to propose
Decisions(left) ==
    IF left > MaxProposed THEN SteadyResponses
    ELSE ModelResponses(IF left < MaxCalls THEN left ELSE MaxCalls)

\* whether the primitive of an action settles (TRUE) or throws
Settlings(left) == IF left > MaxProposed THEN {TRUE} ELSE BOOLEAN

\* a scraped record: the source it came from and its place on the page
Records(s, n) == [k \in 1 .. n |-> <<s, k>>]

\* what the extraction model's text decodes to (computerUseAgent.ts:492-503, 629, 766)
Extractions(s) ==
    {[kind |-> "throw", list |-> <<>>], [kind |-> "malformed", list |-> <<>>],
     [kind |-> "no_list", list |-> <<>>]}
    \cup {[kind |-> "list", list |-> Records(s, n)] : n \in 0 .. MaxExtract}

---------------------------------------------------------------------------
(* ComputerUseAgent and its two scraper subclasses, as functions from the  *)
(* agent's state (fields and coroutine frame) to its state at the next     *)
(* await.  `out` collects the log entries emitted on the way, in order.    *)

NoCompletion == [kind |-> "none", list |-> <<>>]
\* what runTask settles with: {success, result, logs} or an exception
NoReturn == [kind |-> "none", success |-> FALSE, defined |-> FALSE, result |-> <<>>]
TaskReturn(success, defined, result) ==
    [kind |-> "return", success |-> success, defined |-> defined, result |-> result]

\* a ComputerUseAgent after its constructor (computerUseAgent.ts:53-66, 510-513).
\* Beside the fields and the frame the record keeps what the agent has done so far:
\* browsers launched, browser.close calls, executeAction calls that returned, the
\* ones among them that reached the settling waits, whether an exception left
\* executeAction (of the run under way: runTask starts them again), what the
\* extraction response decoded to, the runTask calls refused, and the calls of
\* extractPageData.
NewAgent(s) ==
    [source |-> s, agentName |-> AgentName(s), pc |-> "idle",
     maxTurns |-> DefaultMaxTurns, isRunning |-> FALSE,
     initialUrl |-> FALSE, runs |-> 0, uuids |-> 0, final |-> NoReturn,
     returned |-> NoReturn,
     launches |-> 0, closes |-> 0, executed |-> 0, settles |-> 0, escaped |-> FALSE,
     extraction |-> "none", refusals |-> 0, extracts |-> 0,
     browser |-> FALSE, page |-> FALSE, live |-> 0, logs |-> <<>>, out |-> <<>>,
     turn |-> 0, pending |-> <<>>, result |-> "",
     functionResponses |-> <<>>, contents |-> <<>>, prims |-> 0,
     completion |-> NoCompletion, ret |-> <<>>, absorbed |-> FALSE]

PreEntry(name, action, status, details, n, own) ==
    [agentName |-> name, action |-> action, status |-> status, details |-> details,
     n |-> n, own |-> own]

\* no ComputerUseAgent has been constructed outside the scrape jobs
NoAgent == [NewAgent("none") EXCEPT !.pc = "absent"]

\* this.log(action, status, details): kept in this.logs and handed to the callback
Log(a, action, status, details, n) ==
    [a EXCEPT !.out = Append(@, PreEntry(a.agentName, action, status, details, n, TRUE))]

\* this.extractionCallback?.({...}) / logCallback({...}): handed to the callback only
Callback(a, action, status, details, n) ==
    [a EXCEPT !.out = Append(@, PreEntry(a.agentName, action, status, details, n, FALSE))]

\* the async block of runLiveScrapeJob after its scraper resolved with `list`: the
\* "Completed" entry and the block's value.  The agent object is local to the block
\* and unreachable from here on: its coroutine frame and this.logs are dropped, the
\* browser process it may have left running is not
ScraperResolved(a, list) ==
    [Callback(a, "Completed", "completed", "Found", Len(list))
        EXCEPT !.pc = "done", !.ret = list, !.completion = NoCompletion,
               !.contents = <<>>, !.functionResponses = <<>>, !.pending = <<>>,
               !.result = "", !.turn = 0, !.logs = <<>>]

\* mutant: the catch hands back what the run had gathered before it failed
Absorb_Gathered(a) ==
    [ScraperResolved(a, IF a.completion.kind = "return" THEN Records(a.source, 1)
                        ELSE <<>>)
        EXCEPT !.absorbed = TRUE]

\* catch of searchAndScrapeProducts / searchAndScrapeSuppliers: console.error, return []
\* (`absorbed` remembers that the run ended here; the code keeps no such flag)
Absorb(a) == [ScraperResolved(a, <<>>) EXCEPT !.absorbed = TRUE]

\* the async block up to the first await: "Initializing", the constructor,
\* searchAndScrape..., runTaskAndExtract, initialize() up to chromium.launch
Begin(a) ==
    [Log(Callback(a, "Initializing", "searching", "Starting search...", 0),
         "Initializing browser", "searching", "Starting Chromium browser...", 0)
        EXCEPT !.pc = "initialize"]

\* initialize() settled (computerUseAgent.ts:90-110): chromium.launch failed, or it
\* succeeded and newContext / newPage failed, or all three succeeded; on success
\* runTaskAndExtract enters its try and navigate() runs up to page.goto
Initialized(a, how) ==
    IF how = "launch_failed" THEN Absorb(a)
    ELSE IF how = "context_failed"
    THEN Absorb([a EXCEPT !.browser = TRUE, !.live = @ + 1, !.launches = @ + 1])
    ELSE [Log(Log([a EXCEPT !.browser = TRUE, !.live = @ + 1, !.launches = @ + 1,
                            !.page = TRUE],
                  "Browser initialized", "idle", "Ready to navigate", 0),
              "Navigating", "searching", "initialUrl", 0)
            EXCEPT !.pc = "goto"]

\* finally { await this.close() }: close() up to browser.close (if a browser is set)
Finally(a, completion) ==
    IF a.browser
    THEN [a EXCEPT !.pc = "close", !.completion = completion, !.closes = @ + 1]
    ELSE IF completion.kind = "return" THEN ScraperResolved(a, completion.list)
         ELSE Absorb(a)

\* after the loop: "Extracting data", extractPageData up to its first await
ExtractEntry(a) ==
    [Callback(a, "Extracting data", "analyzing", "Using AI to extract...", 0)
        EXCEPT !.pc = "extract", !.extracts = @ + 1]

\* for (let turn = 0; turn < 15; turn++): the test, "Turn n", callModel
\* mutant: after the last turn the scraper returns without extracting
LoopHead_NoExtract(a) ==
    IF a.turn < ScraperTurns
    THEN [Callback(a, "Turn", "analyzing", "Interacting with page...", a.turn + 1)
            EXCEPT !.pc = "model"]
    ELSE Finally(a, [kind |-> "return", list |-> <<>>])

LoopHead(a) ==
    IF a.turn < ScraperTurns
    THEN [Callback(a, "Turn", "analyzing", "Interacting with page...", a.turn + 1)
            EXCEPT !.pc = "model"]
    ELSE ExtractEntry(a)

BlockedResponse(call) ==
    [name |-> call.name, error |-> "Action blocked - requires human confirmation",
     screenshot |-> FALSE]

\* executeAction up to its first await: the page test (line 139, outside the try),
\* the log, the switch, the primitive's call.  An unknown name returns from the
\* default branch (line 257), before the settling waits of lines 260-261
ExecuteActionBegin(a, call) ==
    LET logged == Log(a, "Executing action", "analyzing", call.name, 0) IN
    IF ~a.page THEN [a EXCEPT !.escaped = TRUE, !.pc = "threw"]
    ELSE IF call.name \notin KnownActions
    THEN [Log(logged, "Unknown action", "error", "Action not implemented", 0)
            EXCEPT !.result = "Unknown action", !.pc = "shot", !.executed = @ + 1]
    ELSE IF call.name \in NoPrimitive
    THEN [logged EXCEPT !.pc = "exec"]
    ELSE [logged EXCEPT !.prims = @ + 1, !.pc = "exec"]

RECURSIVE ExecuteFunctionCalls(_)
\* mutant: executeFunctionCalls without its safety gate
ExecuteFunctionCalls_NoGate(a) ==
    IF a.pending = <<>>
    THEN LoopHead([a EXCEPT
            !.contents = Append(@, [role |-> "user", text |-> <<>>, calls |-> <<>>,
                                    parts |-> a.functionResponses]),
            !.functionResponses = <<>>,
            !.turn = @ + 1])
    ELSE ExecuteActionBegin(a, Head(a.pending))

\* executeFunctionCalls from its for-loop head to the next await, and when the
\* calls are used up the rest of the turn (computerUseAgent.ts:595-602)
ExecuteFunctionCalls(a) ==
    IF a.pending = <<>>
    THEN LoopHead([a EXCEPT
            !.contents = Append(@, [role |-> "user", text |-> <<>>, calls |-> <<>>,
                                    parts |-> a.functionResponses]),
            !.functionResponses = <<>>,
            !.turn = @ + 1])
    ELSE IF Head(a.pending).safety = "require_confirmation"
    THEN ExecuteFunctionCalls([a EXCEPT
            !.functionResponses = Append(@, BlockedResponse(Head(a.pending))),
            !.pending = Tail(@)])
    ELSE LET begun == ExecuteActionBegin(a, Head(a.pending))
         IN  IF begun.pc = "threw" THEN Finally(begun, [kind |-> "throw", list |-> <<>>])
             ELSE begun

\* page.goto, waitForTimeout(1000) and the first takeScreenshot settled
Navigated(a, ok) ==
    IF ok
    THEN LoopHead([a EXCEPT
            !.contents = <<[role |-> "user", text |-> <<{"goal"}>>, calls |-> <<>>,
                            parts |-> <<>>]>>,
            !.turn = 0])
    ELSE Finally(a, [kind |-> "throw", list |-> <<>>])

\* textParts.some(t => t.includes("DONE") || t.includes("visible") || t.includes("results"))
HasSentinel(text) ==
    \E k \in 1 .. Len(text) : text[k] \cap {"DONE", "visible", "results"} # {}

\* callModel settled (computerUseAgent.ts:581-595)
\* mutant: the function calls are looked at before the text
ModelReturned_CallsFirst(a, r) ==
    IF r.kind = "throw" THEN Finally(a, [kind |-> "throw", list |-> <<>>])
    ELSE IF r.kind = "null" THEN ExtractEntry(a)
    ELSE LET pushed == [a EXCEPT
                !.contents = Append(@, [role |-> "model", text |-> r.text,
                                        calls |-> r.calls, parts |-> <<>>])]
         IN IF r.calls = <<>> THEN ExtractEntry(pushed)
            ELSE ExecuteFunctionCalls([pushed EXCEPT !.pending = r.calls,
                                                     !.functionResponses = <<>>])

ModelReturned(a, r) ==
    IF r.kind = "throw" THEN Finally(a, [kind |-> "throw", list |-> <<>>])
    ELSE IF r.kind = "null" THEN ExtractEntry(a)
    ELSE LET pushed == [a EXCEPT
                !.contents = Append(@, [role |-> "model", text |-> r.text,
                                        calls |-> r.calls, parts |-> <<>>])]
         IN IF HasSentinel(r.text) THEN ExtractEntry(pushed)
            ELSE IF r.calls = <<>> THEN ExtractEntry(pushed)
            ELSE ExecuteFunctionCalls([pushed EXCEPT !.pending = r.calls,
                                                     !.functionResponses = <<>>])

\* the try of executeAction settled (lines 146-268): the primitive went through and
\* the settling waits of lines 260-261 were made, or the primitive threw and the
\* catch returned the failure without them
ActionSettled(a, ok) ==
    IF ok THEN [a EXCEPT !.result = "", !.pc = "shot", !.executed = @ + 1,
                         !.settles = @ + 1]
    ELSE [Log(a, "Action error", "error", Head(a.pending).name, 0)
            EXCEPT !.result = "primitive failed", !.pc = "shot", !.executed = @ + 1]

\* mutant: functionResponses.unshift(...)
ScreenshotTaken_Unshift(a, ok) ==
    IF ok
    THEN ExecuteFunctionCalls([a EXCEPT
            !.functionResponses = <<[name |-> Head(a.pending).name,
                                     error |-> a.result, screenshot |-> TRUE]>> \o @,
            !.result = "",
            !.pending = Tail(@)])
    ELSE Finally(a, [kind |-> "throw", list |-> <<>>])

\* waitForTimeout(500) and takeScreenshot after the action settled
ScreenshotTaken(a, ok) ==
    IF ok
    THEN ExecuteFunctionCalls([a EXCEPT
            !.functionResponses = Append(@, [name |-> Head(a.pending).name,
                                             error |-> a.result, screenshot |-> TRUE]),
            !.result = "",
            !.pending = Tail(@)])
    ELSE Finally(a, [kind |-> "throw", list |-> <<>>])

\* extractPageData settled, then the rest of the try (computerUseAgent.ts:613-641)
\* mutant: the JSON.parse exception leaves extractPageData
Extracted_Raises(a, x) ==
    LET got == [a EXCEPT !.extraction = x.kind] IN
    IF x.kind \in {"throw", "malformed"}
    THEN Finally(got, [kind |-> "throw", list |-> <<>>])
    ELSE IF x.kind = "no_list" THEN Finally(got, [kind |-> "return", list |-> <<>>])
    ELSE Finally(Callback(got, "Extraction complete", "completed", "Found", Len(x.list)),
                 [kind |-> "return", list |-> Take(x.list, DefaultMaxRecords)])

Extracted(a, x) ==
    LET got == [a EXCEPT !.extraction = x.kind] IN
    IF x.kind = "throw" THEN Finally(got, [kind |-> "throw", list |-> <<>>])
    ELSE IF x.kind = "malformed"
    THEN Finally(Log(got, "Data extraction failed", "error", "SyntaxError", 0),
                 [kind |-> "return", list |-> <<>>])
    ELSE IF x.kind = "no_list" THEN Finally(got, [kind |-> "return", list |-> <<>>])
    ELSE Finally(Callback(got, "Extraction complete", "completed", "Found", Len(x.list)),
                 [kind |-> "return", list |-> Take(x.list, DefaultMaxRecords)])

\* browser.close settled: the rest of close(), then the finally's completion
Closed(a, ok) ==
    IF ok
    THEN LET shut == Log([a EXCEPT !.browser = FALSE, !.page = FALSE, !.live = @ - 1],
                         "Browser closed", "completed", "", 0)
         IN IF a.completion.kind = "return" THEN ScraperResolved(shut, a.completion.list)
            ELSE Absorb(shut)
    ELSE Absorb(a)

---------------------------------------------------------------------------
(* ComputerUseAgent.runTask (computerUseAgent.ts:271-399), the base turn   *)
(* loop, on an agent constructed without a log callback.                   *)

\* the agent once runTask has settled with `final`; its locals are gone
TaskSettled(a, final) ==
    [a EXCEPT !.pc = "idle", !.returned = final, !.final = NoReturn,
              !.contents = <<>>, !.functionResponses = <<>>, !.pending = <<>>,
              !.result = "", !.turn = 0]

\* finally { await this.close(); this.isRunning = false }: up to browser.close
TaskFinally(a, final) ==
    IF a.browser
    THEN [a EXCEPT !.pc = "close", !.final = final, !.closes = @ + 1]
    ELSE TaskSettled([a EXCEPT !.isRunning = FALSE], final)

\* mutant: the catch block returns without the finally block
TaskCatch_NoFinally(a, message) ==
    TaskSettled([Log(a, "Task failed", "error", message, 0) EXCEPT !.isRunning = FALSE],
                TaskReturn(FALSE, FALSE, <<>>))

\* catch (error): "Task failed", return {success: false, logs}   (lines 391-394)
TaskCatch(a, message) ==
    TaskFinally(Log(a, "Task failed", "error", message, 0),
                TaskReturn(FALSE, FALSE, <<>>))

\* mutant: runTask without its isRunning test
RunTaskBegin_Unguarded(a, url) ==
    [Log([a EXCEPT !.isRunning = TRUE, !.logs = <<>>, !.initialUrl = url,
                   !.runs = @ + 1, !.prims = 0, !.returned = NoReturn,
                        !.launches = 0, !.closes = 0, !.executed = 0,
                        !.settles = 0],
         "Initializing browser", "searching", "Starting Chromium browser...", 0)
        EXCEPT !.pc = "initialize"]

\* runTask from its call to chromium.launch (lines 272-280, 88-90), or to the throw
\* of line 273 that refuses the call: the caller gets the exception, the agent and
\* the run under way are left as they were
\* mutant: the guard is inside the try, so a refused call runs the finally block
RunTaskBegin_GuardInTry(a, url) ==
    IF a.isRunning
    THEN [a EXCEPT !.refusals = @ + 1, !.isRunning = FALSE, !.browser = FALSE,
                   !.page = FALSE]
    ELSE [Log([a EXCEPT !.isRunning = TRUE, !.logs = <<>>, !.initialUrl = url,
                        !.runs = @ + 1, !.prims = 0, !.returned = NoReturn,
                        !.launches = 0, !.closes = 0, !.executed = 0,
                        !.settles = 0],
              "Initializing browser", "searching", "Starting Chromium browser...", 0)
            EXCEPT !.pc = "initialize"]

RunTaskBegin(a, url) ==
    IF a.isRunning THEN [a EXCEPT !.refusals = @ + 1]
    ELSE [Log([a EXCEPT !.isRunning = TRUE, !.logs = <<>>, !.initialUrl = url,
                        !.runs = @ + 1, !.prims = 0, !.returned = NoReturn,
                        !.launches = 0, !.closes = 0, !.executed = 0,
                        !.settles = 0],
              "Initializing browser", "searching", "Starting Chromium browser...", 0)
            EXCEPT !.pc = "initialize"]

\* "Starting task", takeScreenshot   (lines 286-288)
TaskStarting(a) ==
    [Log(a, "Starting task", "searching", "goal", 0) EXCEPT !.pc = "firstshot"]

\* initialize() settled, then navigate() up to page.goto if a url was given
TaskInitialized(a, how) ==
    IF how = "launch_failed" THEN TaskCatch(a, "launch failed")
    ELSE IF how = "context_failed"
    THEN TaskCatch([a EXCEPT !.browser = TRUE, !.live = @ + 1, !.launches = @ + 1],
                   "newContext failed")
    ELSE LET up == Log([a EXCEPT !.browser = TRUE, !.live = @ + 1,
                                 !.launches = @ + 1, !.page = TRUE],
                       "Browser initialized", "idle", "Ready to navigate", 0)
         IN IF a.initialUrl
            THEN [Log(up, "Navigating", "searching", "initialUrl", 0)
                    EXCEPT !.pc = "goto"]
            ELSE TaskStarting(up)

TaskNavigated(a, ok) == IF ok THEN TaskStarting(a) ELSE TaskCatch(a, "goto failed")

\* mutant: the loop test is turn <= this.maxTurns
TaskLoopHead_OneMore(a) ==
    IF a.turn <= a.maxTurns
    THEN [Log(a, "Turn", "analyzing", "Sending to Gemini Computer Use model...",
              a.turn + 1)
            EXCEPT !.pc = "model"]
    ELSE TaskFinally(a, TaskReturn(TRUE, FALSE, <<>>))

\* for (let turn = 0; turn < this.maxTurns; turn++): the test, "Turn n/max",
\* generateContent; past the loop, return {success: true, result: finalResult}
\* mutant: running out of turns is reported as a failure
TaskLoopHead_Fails(a) ==
    IF a.turn < a.maxTurns
    THEN [Log(a, "Turn", "analyzing", "Sending to Gemini Computer Use model...",
              a.turn + 1)
            EXCEPT !.pc = "model"]
    ELSE TaskCatch(a, "Maximum number of turns reached")

TaskLoopHead(a) ==
    IF a.turn < a.maxTurns
    THEN [Log(a, "Turn", "analyzing", "Sending to Gemini Computer Use model...",
              a.turn + 1)
            EXCEPT !.pc = "model"]
    ELSE TaskFinally(a, TaskReturn(TRUE, FALSE, <<>>))

\* the first screenshot settled (lines 288-313)
TaskFirstShot(a, ok) ==
    IF ok
    THEN TaskLoopHead([a EXCEPT
            !.contents = <<[role |-> "user", text |-> <<{"goal"}>>, calls |-> <<>>,
                            parts |-> <<>>]>>,
            !.turn = 0])
    ELSE TaskCatch(a, "screenshot failed")

RECURSIVE TaskFunctionCalls(_)
\* the for-loop over the function calls of runTask from its head to the next await,
\* and when the calls are used up the rest of the turn   (lines 347-388)
TaskFunctionCalls(a) ==
    IF a.pending = <<>>
    THEN TaskLoopHead([a EXCEPT
            !.contents = Append(@, [role |-> "user", text |-> <<>>, calls |-> <<>>,
                                    parts |-> a.functionResponses]),
            !.functionResponses = <<>>,
            !.turn = @ + 1])
    ELSE IF Head(a.pending).safety = "require_confirmation"
    THEN TaskFunctionCalls([Log(a, "Safety confirmation required", "error",
                                "Unknown reason", 0)
            EXCEPT !.functionResponses = Append(@, BlockedResponse(Head(a.pending))),
                   !.pending = Tail(@)])
    ELSE LET begun == ExecuteActionBegin(a, Head(a.pending))
         IN  IF begun.pc = "threw" THEN TaskCatch(begun, "Browser not initialized")
             ELSE begun

\* mutant: a response without function calls does not leave the loop
TaskModelReturned_NoBreak(a, r) ==
    IF r.kind = "throw" THEN TaskCatch(a, "generateContent failed")
    ELSE IF r.kind = "null"
    THEN TaskFinally(Log(a, "No response from model", "error", "", 0),
                     TaskReturn(TRUE, FALSE, <<>>))
    ELSE TaskFunctionCalls([a EXCEPT
            !.contents = Append(@, [role |-> "model", text |-> r.text,
                                    calls |-> r.calls, parts |-> <<>>]),
            !.pending = r.calls,
            !.functionResponses = <<>>])

\* generateContent settled   (lines 316-345)
TaskModelReturned(a, r) ==
    IF r.kind = "throw" THEN TaskCatch(a, "generateContent failed")
    ELSE IF r.kind = "null"
    THEN TaskFinally(Log(a, "No response from model", "error", "", 0),
                     TaskReturn(TRUE, FALSE, <<>>))
    ELSE LET pushed == [a EXCEPT
                !.contents = Append(@, [role |-> "model", text |-> r.text,
                                        calls |-> r.calls, parts |-> <<>>])]
             thought == IF r.text # <<>>
                        THEN Log(pushed, "Model thinking", "analyzing", "text", 0)
                        ELSE pushed
         IN IF r.calls = <<>>
            THEN TaskFinally(Log(thought, "Task completed", "completed", "text", 0),
                             TaskReturn(TRUE, TRUE, r.text))
            ELSE TaskFunctionCalls([thought EXCEPT !.pending = r.calls,
                                                   !.functionResponses = <<>>])

\* waitForTimeout(500) and takeScreenshot after executeAction   (lines 366-379)
\* mutant: an action the executor reported as failed ends the run
TaskScreenshotTaken_AbortOnError(a, ok) ==
    IF ok /\ a.result = ""
    THEN TaskFunctionCalls([a EXCEPT
            !.functionResponses = Append(@, [name |-> Head(a.pending).name,
                                             error |-> a.result, screenshot |-> TRUE]),
            !.result = "",
            !.pending = Tail(@)])
    ELSE TaskCatch(a, IF ok THEN a.result ELSE "screenshot failed")

TaskScreenshotTaken(a, ok) ==
    IF ok
    THEN TaskFunctionCalls([a EXCEPT
            !.functionResponses = Append(@, [name |-> Head(a.pending).name,
                                             error |-> a.result, screenshot |-> TRUE]),
            !.result = "",
            !.pending = Tail(@)])
    ELSE TaskCatch(a, "screenshot failed")

\* browser.close settled in the finally: the rest of close() and isRunning = false,
\* or the exception of close() leaves runTask with isRunning still set
TaskClosed(a, ok) ==
    IF ok
    THEN TaskSettled(Log([a EXCEPT !.browser = FALSE, !.page = FALSE, !.live = @ - 1,
                                   !.isRunning = FALSE],
                         "Browser closed", "completed", "", 0),
                     a.final)
    ELSE TaskSettled(a, [NoReturn EXCEPT !.kind = "throw"])

---------------------------------------------------------------------------
(* The job registry and the log callback *)

IsOwn(e) == e.own

\* randomUUID() + the entry literal: the k-th entry emitted for job j in this run
Stamp(j, base, out) ==
    [k \in 1 .. Len(out) |->
        [id |-> <<j, base + k>>, agentName |-> out[k].agentName,
         action |-> out[k].action, status |-> out[k].status,
         details |-> out[k].details, n |-> out[k].n, own |-> out[k].own]]

Entry(e) ==
    [id |-> e.id, agentName |-> e.agentName, action |-> e.action, status |-> e.status,
     details |-> e.details, n |-> e.n]

Entries(stamped) == [k \in 1 .. Len(stamped) |-> Entry(stamped[k])]

\* mutant: job.logs.unshift(log)
logCallback_Unshift(logs, stamped) == Entries(stamped) \o logs

\* mutant: the entries are kept grouped by agent, after the agent's last entry
logCallback_Grouped(logs, stamped) ==
    IF stamped = <<>> THEN logs
    ELSE LET same == {k \in 1 .. Len(logs) : logs[k].agentName = stamped[1].agentName}
             at == IF same = {} THEN Len(logs)
                   ELSE CHOOSE k \in same : \A m \in same : m <= k
         IN  SubSeq(logs, 1, at) \o Entries(stamped) \o SubSeq(logs, at + 1, Len(logs))

\* const logCallback = (log) => { job.logs.push(log) }   (routes.ts:473-475)
logCallback(logs, stamped) == logs \o Entries(stamped)

\* this.logs.push(entry) for the entries that went through this.log (line 78)
KeepOwn(a, stamped) ==
    [a EXCEPT !.logs = IF a.pc = "done" THEN <<>>
                       ELSE @ \o Entries(SelectSeq(stamped, IsOwn)),
              !.out = <<>>]

SystemEntry(action, status, details, n) ==
    <<PreEntry("System", action, status, details, n, FALSE)>>

\* the sources of a request in the order runLiveScrapeJob starts them
Requested(srcs) == SelectSeq(Sources, LAMBDA s : s \in srcs)

\* mutant: the join waits for a scraper of every source, requested or not
AllDone_EverySource(ags, srcs) == \A s \in SourceSet : ags[s].pc = "done"

\* mutant: the first scraper to resolve completes the job
AllDone_First(ags, srcs) == \E s \in srcs : ags[s].pc = "done"

AllDone(ags, srcs) == \A s \in srcs : ags[s].pc = "done"

\* mutant: resultsArrays[0] in place of resultsArrays.flat()
AllResults_First(ags, srcs) ==
    IF Requested(srcs) = <<>> THEN <<>> ELSE ags[Requested(srcs)[1]].ret

\* mutant: the lists are merged last source first
AllResults_Reversed(ags, srcs) ==
    LET r == Requested(srcs)
    IN  Flat([k \in 1 .. Len(r) |-> ags[r[Len(r) + 1 - k]].ret])

\* resultsArrays.flat() over the scrapers' resolved lists (routes.ts:566-567)
AllResults(ags, srcs) ==
    Flat([k \in 1 .. Len(Requested(srcs)) |-> ags[Requested(srcs)[k]].ret])

\* mutant: the finished job is dropped from the registry (activeScrapeJobs.delete)
Completion_Evict(j, job, logs, base, all) ==
    [job |-> NoJob, pc |-> IF Len(all) > 0 THEN "getSession" ELSE "settled",
     uuid |-> base + 1]

\* mutant: the summary entry is left to a later run
Completion_Unlogged(j, job, logs, base, all) ==
    [job |-> [job EXCEPT !.results = all, !.status = "completed", !.logs = logs],
     pc |-> IF Len(all) > 0 THEN "getSession" ELSE "settled",
     uuid |-> base]

\* runLiveScrapeJob after `await Promise.all(scrapePromises)` up to its next await
\* (routes.ts:566-582): the job record, the orchestrator's position, the ids drawn
Completion(j, job, logs, base, all) ==
    [job |-> [job EXCEPT !.results = all, !.status = "completed",
                         !.logs = logCallback(logs,
                            Stamp(j, base, SystemEntry("Search completed", "completed",
                                                       "Total results", Len(all))))],
     pc |-> IF Len(all) > 0 THEN "getSession" ELSE "settled",
     uuid |-> base + 1]

---------------------------------------------------------------------------
(* One scraping agent whose search entry point is called by several        *)
(* callers: the fields this.browser, this.context and this.page belong to  *)
(* the agent, the position in initialize / runTaskAndExtract / close to    *)
(* each call.  A browser, its context and its page carry the number of the *)
(* call that launched them; 0 is null.                                      *)

\* callers of searchAndScrapeProducts / searchAndScrapeSuppliers on one agent
MaxCallers == 2
Callers == 1..MaxCallers

\* a call not made yet: its position, the page its pending operation is on, the
\* pages it has operated, the browser it has called close() on, whether it threw,
\* whether an exception left executeAction
NoCall ==
    [pc |-> "none", on |-> 0, used |-> {}, closed |-> 0, threw |-> FALSE,
     escaped |-> FALSE, given |-> FALSE, cap |-> 0, extracted |-> <<>>, ret |-> <<>>]

\* the second argument of a call of searchAndScrapeProducts: a number, or left out
Arguments ==
    [given : {TRUE}, value : 0 .. MaxCap] \cup {[given |-> FALSE, value |-> 0]}

\* the parameter maxProducts with its default value (line 515; maxSuppliers, line 656)
maxProducts(arg) == IF arg.given THEN arg.value ELSE DefaultMaxRecords

\* the lists the extraction model can find on a page: some are longer than the
\* default cap
PageLists ==
    {Records("alibaba", n) : n \in (0 .. MaxExtract) \cup {DefaultMaxRecords + 1}}

Sliced_Whole(list, cap) == list

\* extracted.products.slice(0, maxProducts) (line 638; line 777 for suppliers)
Sliced(list, cap) == Take(list, cap)

\* the agent after its constructor (lines 53-66, 510-513); `open` are the browsers
\* launched and not closed
NewScraper ==
    [browser |-> 0, context |-> 0, page |-> 0, open |-> {},
     call |-> [c \in Callers |-> NoCall]]

\* searchAndScrapeProducts up to chromium.launch (lines 515-533, 542-543, 87-90):
\* nothing is tested before the launch
Entered(w, c, arg) ==
    [w EXCEPT !.call[c].pc = "launch", !.call[c].given = arg.given,
              !.call[c].cap = maxProducts(arg)]

\* an exception that leaves runTaskAndExtract is caught by the entry point, which
\* returns [] (lines 535-538)
Escaped(w, c) == [w EXCEPT !.call[c].pc = "returned", !.call[c].threw = TRUE]

\* close() up to browser.close() (lines 112-114), called by the finally block
\* (lines 642-644): it closes the browser this.browser holds at that moment
CloseBegin(w, c) ==
    IF w.browser = 0 THEN [w EXCEPT !.call[c].pc = "returned"]
    ELSE [w EXCEPT !.open = @ \ {w.browser}, !.call[c].closed = w.browser,
                   !.call[c].pc = "close"]

\* chromium.launch settles (line 90): this.browser is assigned, newContext is
\* called on it (line 104)
Launches(w, c, ok) ==
    IF ok THEN [w EXCEPT !.browser = c, !.open = @ \cup {c}, !.call[c].pc = "newContext"]
    ELSE Escaped(w, c)

\* newContext settles (line 104): this.context is assigned, newPage is called on it
\* (line 109); a failure leaves initialize, which line 543 calls outside the try
ContextCreated(w, c, ok) ==
    IF ok /\ c \in w.open THEN [w EXCEPT !.context = c, !.call[c].pc = "newPage"]
    ELSE Escaped(w, c)

\* newPage settles (line 109): this.page is assigned; navigate tests and uses
\* this.page (lines 546, 127-129)
PageCreated(w, c, ok) ==
    IF ok /\ c \in w.open
    THEN [w EXCEPT !.page = c, !.call[c].on = c, !.call[c].used = @ \cup {c},
                   !.call[c].pc = "goto"]
    ELSE Escaped(w, c)

\* page.goto settles (lines 129-130); takeScreenshot tests and uses this.page as it
\* is then (lines 548, 122-124).  An operation on a page of a closed browser throws.
WentTo(w, c) ==
    IF w.call[c].on \notin w.open \/ w.page = 0
    THEN CloseBegin([w EXCEPT !.call[c].threw = TRUE], c)
    ELSE [w EXCEPT !.call[c].on = w.page, !.call[c].used = @ \cup {w.page},
                   !.call[c].pc = "screenshot"]

\* page.screenshot settles; the first turn calls the decision model (lines 548-585)
Shot(w, c) ==
    IF w.call[c].on \notin w.open
    THEN CloseBegin([w EXCEPT !.call[c].threw = TRUE], c)
    ELSE [w EXCEPT !.call[c].pc = "generateContent"]

\* the loop is over: extractPageData tests this.page and operates it (lines 605-626,
\* 460-465)
ExtractBegin(w, c) ==
    IF w.page = 0 THEN CloseBegin([w EXCEPT !.call[c].threw = TRUE], c)
    ELSE [w EXCEPT !.call[c].on = w.page, !.call[c].used = @ \cup {w.page},
                   !.call[c].pc = "extractPageData"]

\* extractPageData settles (lines 626-641): a thrown exception is caught by the
\* entry point after the finally block (lines 642-644, 535-538); a list is cut to
\* the cap and returned
ExtractReturned(w, c, ok, list) ==
    IF ~ok \/ w.call[c].on \notin w.open
    THEN CloseBegin([w EXCEPT !.call[c].threw = TRUE], c)
    ELSE CloseBegin([w EXCEPT !.call[c].extracted = list,
                              !.call[c].ret = Sliced(list, w.call[c].cap)], c)

\* generateContent settles (lines 585-617).  Without function calls the loop ends
\* and the extraction follows.  With one, executeFunctionCalls calls executeAction,
\* whose first statement tests this.page (line 139) before the try of line 146; the
\* primitive operates this.page.
Decided(w, c, acts) ==
    IF ~acts THEN ExtractBegin(w, c)
    ELSE IF w.page = 0
    THEN CloseBegin([w EXCEPT !.call[c].escaped = TRUE, !.call[c].threw = TRUE], c)
    ELSE [w EXCEPT !.call[c].on = w.page, !.call[c].used = @ \cup {w.page},
                   !.call[c].pc = "primitive"]

\* the primitive settles or throws inside the try (lines 146-268); the further
\* turns are left out, the extraction follows
Acted(w, c) == ExtractBegin(w, c)

\* browser.close() settles (lines 114-118): the three fields are nulled
BrowserClosed(w, c) ==
    [w EXCEPT !.browser = 0, !.context = 0, !.page = 0, !.call[c].pc = "returned"]

---------------------------------------------------------------------------
(* executeAction for the actions that take coordinates (lines 138-269),    *)
(* primitive by primitive: `done` are the calls made on the page so far,   *)
(* pc the primitive whose promise is awaited.                               *)

\* what an argument the model may leave out or set can hold
Flags == {"true", "false", "undefined", "null"}

\* the normalised coordinates at the ends of the range
Corners == {0, NormRange}

\* the calls the model is given: click_at over the whole range of either coordinate,
\* type_text_at at the corners with every setting of its two switches
ExecutorCalls ==
    [name : {"click_at"}, x : 0 .. NormRange, y : Corners,
     press_enter : {"undefined"}, clear_before_typing : {"undefined"}]
    \cup [name : {"click_at"}, x : Corners, y : 0 .. NormRange,
          press_enter : {"undefined"}, clear_before_typing : {"undefined"}]
    \cup [name : {"type_text_at"}, x : Corners, y : Corners,
          press_enter : Flags, clear_before_typing : Flags]

NoCall_Executor ==
    [pc |-> "idle", call |-> [name |-> "none"], done |-> <<>>, result |-> "none"]

\* executeAction up to its first await (lines 139-170): both cases translate the
\* coordinates and click
Executing(call) ==
    [pc |-> "click", call |-> call, result |-> "none",
     done |-> <<[op |-> "mouse.click",
                 x |-> denormalizeX(call.x, SCREEN_WIDTH),
                 y |-> denormalizeY(call.y, SCREEN_HEIGHT)]>>]

\* mutant: Enter is pressed only when the argument is true
pressEnter_Truthy(call) == call.press_enter = "true"

\* lines 166-167: const pressEnter = args.press_enter !== false, and clearFirst
pressEnter(call) == call.press_enter # "false"
clearFirst(call) == call.clear_before_typing # "false"

\* the primitive executeAction calls when the one awaited has settled, "settle" being
\* the waits of lines 260-261 and "return" line 263
Following(e) ==
    IF e.pc = "settle" THEN "return"
    ELSE IF e.call.name = "click_at" THEN "settle"
    ELSE IF e.pc = "click" THEN (IF clearFirst(e.call) THEN "selectAll" ELSE "type")
    ELSE IF e.pc = "selectAll" THEN "delete"
    ELSE IF e.pc = "delete" THEN "type"
    ELSE IF e.pc = "type" THEN (IF pressEnter(e.call) THEN "enter" ELSE "settle")
    ELSE "settle"

\* the call on the page each of them is (lines 170-181, 260-261)
PageCall(pc) ==
    IF pc = "selectAll" THEN [op |-> "keyboard.press", key |-> "Control+A"]
    ELSE IF pc = "delete" THEN [op |-> "keyboard.press", key |-> "Backspace"]
    ELSE IF pc = "type" THEN [op |-> "keyboard.type", key |-> "text"]
    ELSE IF pc = "enter" THEN [op |-> "keyboard.press", key |-> "Enter"]
    ELSE [op |-> "waitForLoadState", key |-> "networkidle"]

\* the awaited primitive settles: a rejection goes to the catch of lines 264-268
\* (the waits of lines 260-261 swallow theirs), else the next primitive is called
PrimitiveSettled(e, ok) ==
    IF ~ok /\ e.pc # "settle" THEN [e EXCEPT !.pc = "returned", !.result = "error"]
    ELSE IF Following(e) = "return" THEN [e EXCEPT !.pc = "returned", !.result = "success"]
    ELSE [e EXCEPT !.pc = Following(e), !.done = Append(@, PageCall(Following(e)))]

\* the server after registerRoutes, before any request; `proposals` is the number of
\* function calls the decision step will propose
---------------------------------------------------------------------------
(* The client page (src/client/src/components/EmptyState.tsx): the log     *)
(* panel agentLogs, the interval timer and the status requests under way.  *)
(* An entry made by the client has an id of its own (job 0).               *)

\* Beside the component's state the record keeps the ids of the entries of the last
\* response with a terminal status, and the number of responses that came with
\* fewer entries than the panel already held.
NoClient ==
    [pc |-> "idle", jobId |-> 0, polled |-> 0, agentLogs |-> <<>>, made |-> 0, asked |-> 0,
     sent |-> 0, flight |-> {}, observed |-> {}, stale |-> 0]

\* addAgentLog (lines 661-668): crypto.randomUUID() and setAgentLogs(prev => [...prev, newLog])
addAgentLog(c, name, action, status) ==
    [c EXCEPT !.agentLogs = Append(@, [id |-> <<0, c.made + 1>>, agentName |-> name,
                                       action |-> action, status |-> status,
                                       details |-> "", n |-> 0]),
              !.made = @ + 1]

\* mutant: every entry of the response is appended
Merged_All(prev, logs) == prev \o logs

\* the updater of pollJobStatus (lines 690-694): the entries of the response whose
\* id the panel does not hold yet are appended
Merged(prev, logs) ==
    LET existingIds == {prev[k].id : k \in 1 .. Len(prev)}
    IN  prev \o SelectSeq(logs, LAMBDA l : l.id \notin existingIds)

\* pollJobStatus after `await response.json()` (lines 683-771); a response that is
\* not ok is thrown and caught (lines 684-686, 769-771)
Received(c, r) ==
    IF r.code # 200 THEN c
    ELSE LET held == Len(SelectSeq(c.agentLogs, LAMBDA l : l.id[1] # 0))
             shown == [c EXCEPT !.agentLogs = IF Len(r.logs) > 0
                                              THEN Merged(@, r.logs) ELSE @,
                                !.stale = IF Len(r.logs) < held THEN @ + 1 ELSE @]
         IN  IF r.status \in {"completed", "error"}
             THEN [shown EXCEPT !.pc = "stopped", !.jobId = 0,
                                !.observed = {r.logs[k].id : k \in 1 .. Len(r.logs)}]
             ELSE shown

Start(proposals, standalone) ==
    /\ activeScrapeJobs = [j \in Jobs |-> NoJob]
    /\ orch = [j \in Jobs |-> [pc |-> "none", sources |-> {}, rejection |-> ""]]
    /\ agent = [j \in Jobs |-> [s \in SourceSet |-> NewAgent(s)]]
    /\ uuid = [j \in Jobs |-> 0]
    /\ lock = 0
    /\ httpReply = [j \in Jobs |-> NoReply]
    /\ fuel = proposals
    /\ baseAgent = standalone
    /\ scraper = NewScraper
    /\ executor = NoCall_Executor
    /\ polls = 0
    /\ client = NoClient
    /\ rejected = <<>>

Registered == {j \in Jobs : activeScrapeJobs[j] # NoJob}
Load(srcs) == IF srcs = {} THEN 1 ELSE Cardinality(srcs)
RECURSIVE Accepted(_)
Accepted(n) == IF n = 0 THEN 0 ELSE Load(orch[n].sources) + Accepted(n - 1)

\* mutant: the job id is not fresh, a registered job is overwritten
PostRegister_Reuse(j, srcs) ==
    /\ lock = 0
    /\ orch[j].pc \in {"none", "settled", "rejected"}
    /\ activeScrapeJobs' = [activeScrapeJobs EXCEPT
            ![j] = [status |-> "running", logs |-> <<>>, results |-> <<>>]]
    /\ orch' = [orch EXCEPT ![j] = [pc |-> "registered", sources |-> {},
                                    rejection |-> ""]]
    /\ lock' = j
    /\ UNCHANGED <<agent, uuid, httpReply, fuel, baseAgent, scraper, executor, polls, client, rejected>>

\* POST /api/scrape/live, lines 415-416: randomUUID(), activeScrapeJobs.set
PostRegister(j, srcs) ==
    /\ lock = 0
    /\ j = Cardinality(Registered) + 1
    /\ Accepted(j - 1) + Load(srcs) <= MaxLoad
    /\ activeScrapeJobs' = [activeScrapeJobs EXCEPT
            ![j] = [status |-> "running", logs |-> <<>>, results |-> <<>>]]
    /\ orch' = [orch EXCEPT ![j] = [pc |-> "registered", sources |-> srcs,
                                    rejection |-> ""]]
    /\ lock' = j
    /\ UNCHANGED <<agent, uuid, httpReply, fuel, baseAgent, scraper, executor, polls, client, rejected>>

\* mutant: the reply waits for runLiveScrapeJob (await before res.json)
PostRespond_Late(j) ==
    /\ lock = j
    /\ orch[j].pc = "registered"
    /\ orch' = [orch EXCEPT ![j].pc = "responded"]
    /\ UNCHANGED <<activeScrapeJobs, agent, uuid, lock, httpReply, fuel, baseAgent, scraper, executor, polls, client, rejected>>

\* POST /api/scrape/live, lines 418-423: res.json({jobId, ...})
PostRespond(j) ==
    /\ lock = j
    /\ orch[j].pc = "registered"
    /\ httpReply' = [httpReply EXCEPT ![j] = [code |-> 200, jobId |-> j]]
    /\ orch' = [orch EXCEPT ![j].pc = "responded"]
    /\ UNCHANGED <<activeScrapeJobs, agent, uuid, lock, fuel, baseAgent, scraper, executor, polls, client, rejected>>

\* mutant: runLiveScrapeJob awaits before it logs anything
RunLiveScrapeJob_Awaits(j) ==
    /\ lock = j
    /\ orch[j].pc = "responded"
    /\ lock' = 0
    /\ UNCHANGED <<activeScrapeJobs, orch, agent, uuid, httpReply, fuel, baseAgent,
                   scraper, executor, polls, client, rejected>>

\* runLiveScrapeJob from its call (line 425) to its first await that waits for the
\* outside world: the "Starting" entry, each requested scraper's async block up to
\* chromium.launch and, with no scraper requested, the completion as well
RunLiveScrapeJob(j) ==
    /\ lock = j
    /\ orch[j].pc = "responded"
    /\ LET srcs == orch[j].sources
           first == Stamp(j, uuid[j], SystemEntry("Starting live supplier search",
                                                  "searching", "Query", 0))
           begun == [s \in SourceSet |->
                        IF s \in srcs THEN Begin(agent[j][s]) ELSE agent[j][s]]
           outA == Stamp(j, uuid[j] + 1, begun["alibaba"].out)
           outT == Stamp(j, uuid[j] + 1 + Len(outA), begun["thomasnet"].out)
           ags == [s \in SourceSet |->
                        KeepOwn(begun[s], IF s = "alibaba" THEN outA ELSE outT)]
           logs == logCallback(logCallback(logCallback(
                        activeScrapeJobs[j].logs, first), outA), outT)
           base == uuid[j] + 1 + Len(outA) + Len(outT)
           done == Completion(j, activeScrapeJobs[j], logs, base, <<>>)
       IN  /\ agent' = [agent EXCEPT ![j] = ags]
           /\ IF srcs = {}
              THEN /\ activeScrapeJobs' = [activeScrapeJobs EXCEPT ![j] = done.job]
                   /\ orch' = [orch EXCEPT ![j].pc = done.pc]
                   /\ uuid' = [uuid EXCEPT ![j] = done.uuid]
              ELSE /\ activeScrapeJobs' = [activeScrapeJobs EXCEPT ![j].logs = logs]
                   /\ orch' = [orch EXCEPT ![j].pc = "join"]
                   /\ uuid' = [uuid EXCEPT ![j] = base]
    /\ lock' = 0
    /\ UNCHANGED <<httpReply, fuel, baseAgent, scraper, executor, polls, client, rejected>>

\* one run of scraper s of job j, from the await that just settled to the next one:
\* `a` is the agent at that next await.  When it was the last scraper to resolve,
\* Promise.all resolves in the same run and runLiveScrapeJob goes on (routes.ts:566)
AgentStep(j, s, a) ==
    LET stamped == Stamp(j, uuid[j], a.out)
        ags == [agent[j] EXCEPT ![s] = KeepOwn(a, stamped)]
        logs == logCallback(activeScrapeJobs[j].logs, stamped)
        base == uuid[j] + Len(stamped)
        srcs == orch[j].sources
        done == Completion(j, activeScrapeJobs[j], logs, base, AllResults(ags, srcs))
    IN  /\ agent' = [agent EXCEPT ![j] = ags]
        /\ IF AllDone(ags, srcs)
           THEN /\ activeScrapeJobs' = [activeScrapeJobs EXCEPT ![j] = done.job]
                /\ orch' = [orch EXCEPT ![j].pc = done.pc]
                /\ uuid' = [uuid EXCEPT ![j] = done.uuid]
           ELSE /\ activeScrapeJobs' = [activeScrapeJobs EXCEPT ![j].logs = logs]
                /\ uuid' = [uuid EXCEPT ![j] = base]
                /\ UNCHANGED orch
        /\ UNCHANGED <<lock, httpReply>>

At(j, s, pc) == lock = 0 /\ orch[j].pc = "join" /\ agent[j][s].pc = pc

Initialize(j, s) ==
    At(j, s, "initialize")
    /\ \E how \in {"launch_failed", "context_failed", "ok"} :
          AgentStep(j, s, Initialized(agent[j][s], how))
    /\ UNCHANGED <<fuel, baseAgent, scraper, executor, polls, client, rejected>>

Navigate(j, s) ==
    At(j, s, "goto") /\ \E ok \in BOOLEAN : AgentStep(j, s, Navigated(agent[j][s], ok))
    /\ UNCHANGED <<fuel, baseAgent, scraper, executor, polls, client, rejected>>

CallModel(j, s) ==
    At(j, s, "model")
    /\ \E r \in Decisions(fuel) :
          /\ AgentStep(j, s, ModelReturned(agent[j][s], r))
          /\ fuel' = fuel - Len(r.calls)
    /\ UNCHANGED <<baseAgent, scraper, executor, polls, client, rejected>>

ExecuteAction(j, s) ==
    At(j, s, "exec")
    /\ \E ok \in Settlings(fuel) : AgentStep(j, s, ActionSettled(agent[j][s], ok))
    /\ UNCHANGED <<fuel, baseAgent, scraper, executor, polls, client, rejected>>

TakeScreenshot(j, s) ==
    At(j, s, "shot")
    /\ \E ok \in BOOLEAN : AgentStep(j, s, ScreenshotTaken(agent[j][s], ok))
    /\ UNCHANGED <<fuel, baseAgent, scraper, executor, polls, client, rejected>>

ExtractPageData(j, s) ==
    At(j, s, "extract")
    /\ \E x \in Extractions(s) : AgentStep(j, s, Extracted(agent[j][s], x))
    /\ UNCHANGED <<fuel, baseAgent, scraper, executor, polls, client, rejected>>

Close(j, s) ==
    At(j, s, "close") /\ \E ok \in BOOLEAN : AgentStep(j, s, Closed(agent[j][s], ok))
    /\ UNCHANGED <<fuel, baseAgent, scraper, executor, polls, client, rejected>>

\* mutant: the catch marks the job and logs nothing
Catch_Silent(j, message) ==
    /\ activeScrapeJobs' = [activeScrapeJobs EXCEPT ![j].status = "error"]
    /\ uuid' = uuid
    /\ orch' = [orch EXCEPT ![j].pc = "rejected", ![j].rejection = message]

\* runLiveScrapeJob().catch(error => ...)   (routes.ts:425-439), run when the promise
\* of runLiveScrapeJob rejects with `message` (kept in orch[j].rejection)
Catch(j, message) ==
    /\ activeScrapeJobs' = [activeScrapeJobs EXCEPT
            ![j].status = "error",
            ![j].logs = logCallback(@, Stamp(j, uuid[j],
                            SystemEntry("Error", "error", message, 0)))]
    /\ uuid' = [uuid EXCEPT ![j] = @ + 1]
    /\ orch' = [orch EXCEPT ![j].pc = "rejected", ![j].rejection = message]

\* `await storage.getSession(sessionId)` of line 582 settled; with constraints the
\* matches are converted and storage.setSessionResults is awaited (lines 583-589)
GetSession(j) ==
    /\ lock = 0
    /\ orch[j].pc = "getSession"
    /\ \E r \in {"throw", "no_constraints", "constraints"} :
          IF r = "throw" THEN Catch(j, "getSession failed")
          ELSE /\ orch' = [orch EXCEPT
                      ![j].pc = IF r = "constraints" THEN "setResults" ELSE "settled"]
               /\ UNCHANGED <<activeScrapeJobs, uuid>>
    /\ UNCHANGED <<agent, lock, httpReply, fuel, baseAgent, scraper, executor, polls, client, rejected>>

\* `await storage.setSessionResults(...)` of line 589 settled
SetSessionResults(j) ==
    /\ lock = 0
    /\ orch[j].pc = "setResults"
    /\ \E ok \in BOOLEAN :
          IF ok THEN /\ orch' = [orch EXCEPT ![j].pc = "settled"]
                     /\ UNCHANGED <<activeScrapeJobs, uuid>>
          ELSE Catch(j, "setSessionResults failed")
    /\ UNCHANGED <<agent, lock, httpReply, fuel, baseAgent, scraper, executor, polls, client, rejected>>

\* one run of the agent used on its own: its entries get their ids and stay in
\* this.logs (no callback is set)
TaskStep(a) ==
    /\ baseAgent' = [a EXCEPT !.logs = @ \o Entries(Stamp(0, a.uuids, a.out)),
                              !.uuids = @ + Len(a.out),
                              !.out = <<>>]
    /\ UNCHANGED <<activeScrapeJobs, orch, agent, uuid, lock, httpReply, scraper, executor, polls, client, rejected>>

\* a caller calls runTask, at any moment of the agent's life
RunTask ==
    /\ baseAgent.pc # "absent"
    /\ IF baseAgent.isRunning THEN baseAgent.refusals < MaxRefused
                               ELSE baseAgent.runs < MaxRuns
    /\ \E url \in BOOLEAN : TaskStep(RunTaskBegin(baseAgent, url))
    /\ UNCHANGED fuel

TaskInitialize ==
    /\ baseAgent.pc = "initialize"
    /\ \E how \in {"launch_failed", "context_failed", "ok"} :
          TaskStep(TaskInitialized(baseAgent, how))
    /\ UNCHANGED fuel

TaskNavigate ==
    /\ baseAgent.pc = "goto"
    /\ \E ok \in BOOLEAN : TaskStep(TaskNavigated(baseAgent, ok))
    /\ UNCHANGED fuel

TaskFirstScreenshot ==
    /\ baseAgent.pc = "firstshot"
    /\ \E ok \in BOOLEAN : TaskStep(TaskFirstShot(baseAgent, ok))
    /\ UNCHANGED fuel

TaskGenerateContent ==
    /\ baseAgent.pc = "model"
    /\ \E r \in Decisions(fuel) :
          /\ TaskStep(TaskModelReturned(baseAgent, r))
          /\ fuel' = fuel - Len(r.calls)

TaskExecuteAction ==
    /\ baseAgent.pc = "exec"
    /\ \E ok \in Settlings(fuel) : TaskStep(ActionSettled(baseAgent, ok))
    /\ UNCHANGED fuel

TaskTakeScreenshot ==
    /\ baseAgent.pc = "shot"
    /\ \E ok \in BOOLEAN : TaskStep(TaskScreenshotTaken(baseAgent, ok))
    /\ UNCHANGED fuel

TaskClose ==
    /\ baseAgent.pc = "close"
    /\ \E ok \in BOOLEAN : TaskStep(TaskClosed(baseAgent, ok))
    /\ UNCHANGED fuel

\* GET /api/scrape/status/:jobId answers with this   (routes.ts:448-454)
StatusReply(id) ==
    IF activeScrapeJobs[id] = NoJob
    THEN [NoPoll EXCEPT !.endpoint = "status", !.jobId = id, !.code = 404]
    ELSE [endpoint |-> "status", jobId |-> id, code |-> 200,
          status |-> activeScrapeJobs[id].status,
          logs |-> activeScrapeJobs[id].logs,
          results |-> activeScrapeJobs[id].results]

\* GET /api/scrape/logs/:jobId answers with this   (routes.ts:456-462)
LogsReply(id) ==
    IF activeScrapeJobs[id] = NoJob
    THEN [NoPoll EXCEPT !.endpoint = "logs", !.jobId = id, !.code = 404]
    ELSE [NoPoll EXCEPT !.endpoint = "logs", !.jobId = id, !.code = 200,
                        !.logs = activeScrapeJobs[id].logs]

\* a poll is served between two runs, never inside the POST continuation
Pollable == lock = 0

\* mutant: a status request that finds the job ended removes it
StatusServed_Evict(jobs, id) ==
    IF jobs[id] # NoJob /\ jobs[id].status \in {"completed", "error"}
    THEN [jobs EXCEPT ![id] = NoJob] ELSE jobs

\* the map after GET /api/scrape/status/:jobId (routes.ts:448-454): the handler
\* reads the job and sends it, it assigns nothing
StatusServed(jobs, id) == jobs

\* the map after GET /api/scrape/logs/:jobId (routes.ts:456-462), likewise
LogsServed(jobs, id) == jobs

GetStatus(id) ==
    /\ Pollable
    /\ polls < MaxPolls
    /\ activeScrapeJobs' = StatusServed(activeScrapeJobs, id)
    /\ polls' = polls + 1
    /\ UNCHANGED <<orch, agent, uuid, lock, httpReply, fuel, baseAgent, scraper, executor, client, rejected>>

GetLogs(id) ==
    /\ Pollable
    /\ polls < MaxPolls
    /\ activeScrapeJobs' = LogsServed(activeScrapeJobs, id)
    /\ polls' = polls + 1
    /\ UNCHANGED <<orch, agent, uuid, lock, httpReply, fuel, baseAgent, scraper, executor, client, rejected>>

\* liveScrapeSearchMutation.onMutate (lines 957-967)
ClientMutate ==
    /\ client.pc = "idle"
    /\ client' = [addAgentLog([client EXCEPT !.agentLogs = <<>>], "Orchestrator",
                              "Starting live supplier search...", "searching")
                    EXCEPT !.pc = "posting"]
    /\ UNCHANGED <<activeScrapeJobs, orch, agent, uuid, lock, httpReply, fuel, baseAgent,
                   scraper, executor, polls, rejected>>

\* liveScrapeSearchMutation.onSuccess (lines 969-981): the reply to the start
\* request has come, the interval timer is set
ClientSuccess(j) ==
    /\ client.pc = "posting"
    /\ httpReply[j].code = 200
    /\ client' = [addAgentLog(client, "System", "Searching for", "searching")
                    EXCEPT !.pc = "polling", !.jobId = j, !.polled = j]
    /\ UNCHANGED <<activeScrapeJobs, orch, agent, uuid, lock, httpReply, fuel, baseAgent,
                   scraper, executor, polls, rejected>>

\* the timer fires (lines 978-980): pollJobStatus sends its request, whatever has
\* become of the earlier ones (line 683)
ClientTick ==
    /\ client.pc = "polling"
    /\ client.asked < MaxClientPolls
    /\ client' = [client EXCEPT !.asked = @ + 1, !.sent = @ + 1]
    /\ UNCHANGED <<activeScrapeJobs, orch, agent, uuid, lock, httpReply, fuel, baseAgent,
                   scraper, executor, polls, rejected>>

\* one of the requests reaches GET /api/scrape/status/:jobId (routes.ts:448-454)
\* with the job id the timer was set for: its response is on its way
ClientServed ==
    /\ Pollable
    /\ client.sent > 0
    /\ activeScrapeJobs' = StatusServed(activeScrapeJobs, client.polled)
    /\ client' = [client EXCEPT
            !.sent = @ - 1,
            !.flight = @ \cup {[code |-> StatusReply(client.polled).code,
                                status |-> StatusReply(client.polled).status,
                                logs |-> StatusReply(client.polled).logs]}]
    /\ UNCHANGED <<orch, agent, uuid, lock, httpReply, fuel, baseAgent, scraper,
                   executor, polls, rejected>>

\* a response arrives, in any order
ClientReceive ==
    /\ \E r \in client.flight :
          client' = [Received(client, r) EXCEPT !.flight = client.flight \ {r}]
    /\ UNCHANGED <<activeScrapeJobs, orch, agent, uuid, lock, httpReply, fuel, baseAgent,
                   scraper, executor, polls, rejected>>

\* what is wrong with a start request: its body does not parse, its session is
\* not stored, its session has no analysed product, or the storage fails
Faults == {"invalid body", "unknown session", "no product", "storage error"}

\* the status code of the reply (routes.ts:391-396, 401-403, 405-409, 440-445)
Refusal(fault) ==
    IF fault = "unknown session" THEN 404
    ELSE IF fault = "storage error" THEN 500
    ELSE 400

\* mutant: the job is registered before the request is validated
Unregistered_Set(jobs) ==
    IF \E j \in Jobs : jobs[j] = NoJob
    THEN [jobs EXCEPT ![CHOOSE j \in Jobs : jobs[j] = NoJob] =
                [status |-> "running", logs |-> <<>>, results |-> <<>>]]
    ELSE jobs

\* the registry after a start request that is turned down (routes.ts:388-409,
\* 440-445): the handler returns before activeScrapeJobs.set (line 416)
Unregistered(jobs) == jobs

\* POST /api/scrape/live up to its first await (routes.ts:388-400): a body that does
\* not parse is answered at once, else storage.getSession is awaited
PostArrives(fault) ==
    /\ lock = 0
    /\ Len(rejected) < MaxRejected
    /\ rejected' = Append(rejected,
            [fault |-> fault,
             code |-> IF fault = "invalid body" THEN Refusal(fault) ELSE 0])
    /\ activeScrapeJobs' =
            IF fault = "invalid body" THEN Unregistered(activeScrapeJobs)
            ELSE activeScrapeJobs
    /\ UNCHANGED <<orch, agent, uuid, lock, httpReply, fuel, baseAgent, scraper,
                   executor, polls, client>>

\* storage.getSession settles (routes.ts:400-409, 440-445): the reply is sent
PostTurnedDown(k) ==
    /\ lock = 0
    /\ k \in 1 .. Len(rejected)
    /\ rejected[k].code = 0
    /\ rejected' = [rejected EXCEPT ![k].code = Refusal(rejected[k].fault)]
    /\ activeScrapeJobs' = Unregistered(activeScrapeJobs)
    /\ UNCHANGED <<orch, agent, uuid, lock, httpReply, fuel, baseAgent, scraper,
                   executor, polls, client>>

---------------------------------------------------------------------------
(* Specifications *)

\* every step of a registered job but the ones that execute a proposed action
Run ==
    \/ \E j \in Jobs : PostRespond(j)
    \/ \E j \in Jobs : RunLiveScrapeJob(j)
    \/ \E j \in Jobs, s \in SourceSet : Initialize(j, s)
    \/ \E j \in Jobs, s \in SourceSet : Navigate(j, s)
    \/ \E j \in Jobs, s \in SourceSet : CallModel(j, s)
    \/ \E j \in Jobs, s \in SourceSet : ExtractPageData(j, s)
    \/ \E j \in Jobs, s \in SourceSet : Close(j, s)
    \/ \E j \in Jobs : GetSession(j)
    \/ \E j \in Jobs : SetSessionResults(j)

\* The orchestrator: up to MaxJobs jobs of a total load of MaxLoad, any sources
\* per request, the scrapers of a job running concurrently.  The decision step
\* proposes no action here (fuel = 0): each scraper's loop ends at its first turn.
Init == Start(0, NoAgent)

Next ==
    \/ \E j \in Jobs, srcs \in SUBSET SourceSet : PostRegister(j, srcs)
    \/ Run

Spec == Init /\ [][Next]_vars

\* The orchestrator with a client polling: requests for the status or the logs of
\* any id arrive between the steps of the jobs.
PollNext ==
    \/ \E j \in Jobs, srcs \in SUBSET SourceSet : PostRegister(j, srcs)
    \/ Run
    \/ \E id \in Jobs : GetStatus(id)
    \/ \E id \in Jobs : GetLogs(id)

PollSpec == Init /\ [][PollNext]_vars

\* One search of the client page: the job it starts, with one source, and the
\* status requests of its timer, served and answered in any order.
ClientNext ==
    \/ \E s \in SourceSet : PostRegister(1, {s})
    \/ Run
    \/ ClientMutate
    \/ \E j \in Jobs : ClientSuccess(j)
    \/ ClientTick
    \/ ClientServed
    \/ ClientReceive

ClientSpec == Init /\ [][ClientNext]_vars

\* Start requests that are turned down, arriving among the steps of a job that
\* was accepted.
RejectNext ==
    \/ \E s \in SourceSet : PostRegister(1, {s})
    \/ Run
    \/ \E fault \in Faults : PostArrives(fault)
    \/ \E k \in 1 .. MaxRejected : PostTurnedDown(k)

RejectSpec == Init /\ [][RejectNext]_vars

\* One scraper: one job with one source, the decision step proposing up to
\* MaxProposed actions over the run.
ScraperInit == Start(MaxProposed, NoAgent)

ScraperNext ==
    \/ \E s \in SourceSet : PostRegister(1, {s})
    \/ Run
    \/ \E j \in Jobs, s \in SourceSet : ExecuteAction(j, s)
    \/ \E j \in Jobs, s \in SourceSet : TakeScreenshot(j, s)

ScraperSpec == ScraperInit /\ [][ScraperNext]_vars

\* The two turn loops, one at a time: the scraper of a job, or an agent constructed
\* on its own (with the default turn limit or a limit of one) running a task; the
\* decision step has MaxProposed calls to propose, or more than a loop has turns.
TaskNext ==
    \/ RunTask
    \/ TaskInitialize
    \/ TaskNavigate
    \/ TaskFirstScreenshot
    \/ TaskGenerateContent
    \/ TaskExecuteAction
    \/ TaskTakeScreenshot
    \/ TaskClose

AgentInit ==
    \E standalone \in {NoAgent} \cup
            {[NewAgent("none") EXCEPT !.agentName = "Agent", !.maxTurns = m] :
                m \in {1, DefaultMaxTurns}},
       proposals \in {MaxProposed, MaxProposed + DefaultMaxTurns} :
        Start(proposals, standalone)

AgentNext ==
    \/ baseAgent = NoAgent /\ ScraperNext
    \/ TaskNext

AgentSpec == AgentInit /\ [][AgentNext]_vars

\* One scraper on a long run, under the event loop's scheduling: every continuation
\* that is ready runs and every awaited outside operation settles.  The decision
\* step has more calls to propose than the loop has turns.
LongInit == Start(MaxProposed + ScraperTurns, NoAgent)

FairSpec == LongInit /\ [][ScraperNext]_vars /\ WF_vars(ScraperNext)

\* Callers sharing one scraping agent (the class is exported, lines 507, 648): each
\* action is one call's run up to its next await.
Others ==
    <<activeScrapeJobs, orch, agent, uuid, lock, httpReply, fuel, baseAgent, executor,
      polls, client, rejected>>

SearchAndScrape(c) ==
    /\ scraper.call[c].pc = "none"
    /\ \E arg \in Arguments : scraper' = Entered(scraper, c, arg)
    /\ UNCHANGED Others

ChromiumLaunch(c) ==
    /\ scraper.call[c].pc = "launch"
    /\ \E ok \in BOOLEAN : scraper' = Launches(scraper, c, ok)
    /\ UNCHANGED Others

NewContext(c) ==
    /\ scraper.call[c].pc = "newContext"
    /\ \E ok \in BOOLEAN : scraper' = ContextCreated(scraper, c, ok)
    /\ UNCHANGED Others

NewPage(c) ==
    /\ scraper.call[c].pc = "newPage"
    /\ \E ok \in BOOLEAN : scraper' = PageCreated(scraper, c, ok)
    /\ UNCHANGED Others

Goto(c) ==
    /\ scraper.call[c].pc = "goto"
    /\ scraper' = WentTo(scraper, c)
    /\ UNCHANGED Others

Screenshot(c) ==
    /\ scraper.call[c].pc = "screenshot"
    /\ scraper' = Shot(scraper, c)
    /\ UNCHANGED Others

GenerateContent(c) ==
    /\ scraper.call[c].pc = "generateContent"
    /\ \E acts \in BOOLEAN : scraper' = Decided(scraper, c, acts)
    /\ UNCHANGED Others

Primitive(c) ==
    /\ scraper.call[c].pc = "primitive"
    /\ scraper' = Acted(scraper, c)
    /\ UNCHANGED Others

ExtractSettled(c) ==
    /\ scraper.call[c].pc = "extractPageData"
    /\ \E ok \in BOOLEAN, list \in PageLists :
          scraper' = ExtractReturned(scraper, c, ok, list)
    /\ UNCHANGED Others

BrowserClose(c) ==
    /\ scraper.call[c].pc = "close"
    /\ scraper' = BrowserClosed(scraper, c)
    /\ UNCHANGED Others

SharedInit == Start(0, NoAgent)

SharedNext ==
    \E c \in Callers :
        \/ SearchAndScrape(c)
        \/ ChromiumLaunch(c)
        \/ NewContext(c)
        \/ NewPage(c)
        \/ Goto(c)
        \/ Screenshot(c)
        \/ GenerateContent(c)
        \/ Primitive(c)
        \/ ExtractSettled(c)
        \/ BrowserClose(c)

SharedSpec == SharedInit /\ [][SharedNext]_vars

\* One call of executeAction on a page, its primitives settling one by one.
ExecutorBegin ==
    /\ executor.pc = "idle"
    /\ \E call \in ExecutorCalls : executor' = Executing(call)
    /\ UNCHANGED <<activeScrapeJobs, orch, agent, uuid, lock, httpReply, fuel, baseAgent,
                   scraper, polls, client, rejected>>

ExecutorStep ==
    /\ executor.pc \notin {"idle", "returned"}
    /\ \E ok \in BOOLEAN : executor' = PrimitiveSettled(executor, ok)
    /\ UNCHANGED <<activeScrapeJobs, orch, agent, uuid, lock, httpReply, fuel, baseAgent,
                   scraper, polls, client, rejected>>

ExecutorInit == Start(0, NoAgent)

ExecutorNext == ExecutorBegin \/ ExecutorStep

ExecutorSpec == ExecutorInit /\ [][ExecutorNext]_vars

---------------------------------------------------------------------------
(* Properties of the job orchestrator *)

Terminal == {"completed", "error"}

\* runLiveScrapeJob has passed `await Promise.all(scrapePromises)`
Joined(j) == orch[j].pc \in {"getSession", "setResults", "settled", "rejected"}

Status(j) == activeScrapeJobs[j].status

\* the lists of the requested scrapers in request order, a scraper whose run was
\* absorbed by its catch giving nothing
Contributions(j) ==
    [k \in 1 .. Len(Requested(orch[j].sources)) |->
        LET a == agent[j][Requested(orch[j].sources)[k]]
        IN  IF a.absorbed THEN <<>> ELSE a.ret]

RECURSIVE SumLen(_)
SumLen(ss) == IF ss = <<>> THEN 0 ELSE Len(Head(ss)) + SumLen(Tail(ss))

UniqueIds(logs) ==
    \A x, y \in 1 .. Len(logs) : x # y => logs[x].id # logs[y].id

\* C1 (as claimed): a job's status only ever goes running -> completed or
\* running -> error, and once it is completed or error it never changes again.
C1_StatusNeverChangesOnceTerminal ==
    [][\A j \in Jobs :
          Status(j)' # Status(j) =>
              \/ Status(j) = "absent" /\ Status(j)' = "running"
              \/ Status(j) = "running" /\ Status(j)' \in Terminal]_vars

\* C2: once a status poll of a job has returned completed or error, every later
\* status poll of that job returns completed or error, never running (step by
\* step: a terminal reply is followed by a terminal reply).
C2_TerminalPollNeverRunningAgain ==
    [][\A j \in Jobs :
          StatusReply(j).status \in Terminal =>
              StatusReply(j)'.code = 200 /\ StatusReply(j)'.status \in Terminal]_vars

C2_Witness ==
    \E j \in Jobs : Pollable /\ StatusReply(j).status = "error"

\* C3: the log a poll returns only grows at its end (the log of an earlier poll is
\* a prefix of the log of every later one, on both endpoints), and no two of its
\* entries share an id.
C3_LogAppendOnlyUniqueIds ==
    [][\A j \in Jobs :
          /\ IsPrefix(StatusReply(j).logs, StatusReply(j)'.logs)
          /\ IsPrefix(LogsReply(j).logs, LogsReply(j)'.logs)
          /\ UniqueIds(StatusReply(j)'.logs)]_vars

C3_Witness ==
    \E j \in Jobs :
        /\ Pollable
        /\ Len(LogsReply(j).logs) >= 8
        /\ \E x, y \in 1 .. Len(LogsReply(j).logs) :
              /\ x < y
              /\ LogsReply(j).logs[x].agentName = "ThomasNet Scraper"
              /\ LogsReply(j).logs[y].agentName = "Alibaba Scraper"

\* C4: the reply to the start request is sent while the job is running and none of
\* its scrapers has been started, and no scraper of a job is started (or its log
\* written) before that reply has been sent.
C4_ReplyBeforeScraping ==
    [][\A j \in Jobs :
          /\ (httpReply[j] = NoReply /\ httpReply'[j] # NoReply) =>
                /\ httpReply'[j] = [code |-> 200, jobId |-> j]
                /\ Status(j)' = "running"
                /\ \A s \in SourceSet : agent'[j][s].pc = "idle"
          /\ httpReply'[j] = NoReply =>
                /\ \A s \in SourceSet : agent'[j][s].pc = "idle"
                /\ activeScrapeJobs'[j].logs = <<>>]_vars

C4_Witness ==
    \E j \in Jobs :
        /\ httpReply[j].code = 200
        /\ Status(j) = "running"
        /\ \E s \in SourceSet : agent[j][s].pc \notin {"idle", "done"}

\* the step in which runLiveScrapeJob of job j passes the join and completes the job
Completes(j) == ~Joined(j) /\ Joined(j)'

\* C5: the step that completes a job leaves its results equal to the concatenation,
\* in request order, of the lists its scrapers resolved with (as many records as
\* they returned together), and a status poll served then returns completed with
\* that list; the results of a job never differ from that concatenation afterwards.
C5_ResultsAreConcatenation ==
    /\ [][\A j \in Jobs :
            Completes(j) =>
                /\ Pollable'
                /\ StatusReply(j)'.code = 200
                /\ StatusReply(j)'.status = "completed"
                /\ StatusReply(j)'.results =
                      agent'[j]["alibaba"].ret \o agent'[j]["thomasnet"].ret]_vars
    /\ [](\A j \in Jobs :
            /\ Joined(j) =>
                  /\ activeScrapeJobs[j].results =
                        agent[j]["alibaba"].ret \o agent[j]["thomasnet"].ret
                  /\ Len(activeScrapeJobs[j].results) =
                        SumLen([k \in 1 .. Len(Requested(orch[j].sources)) |->
                                    agent[j][Requested(orch[j].sources)[k]].ret])
            /\ StatusReply(j).status = "completed" => Joined(j))

C5_Witness ==
    \E j \in Jobs :
        /\ Pollable
        /\ StatusReply(j).status = "completed"
        /\ Len(agent[j]["alibaba"].ret) = 2
        /\ Len(agent[j]["thomasnet"].ret) = 1
        /\ Len(StatusReply(j).results) = 3

\* C6: a scraper whose run failed (its catch absorbed the exception) resolves like
\* any other and contributes nothing: the step that passes the join sets the job
\* completed with exactly the lists of the scrapers that did not fail, whatever the
\* number of failed ones, and a job without results stays completed.
C6_ScraperFailureIsIsolated ==
    /\ [][\A j \in Jobs :
            Completes(j) =>
                /\ Status(j)' = "completed"
                /\ activeScrapeJobs'[j].results = Flat(Contributions(j))']_vars
    /\ [](\A j \in Jobs :
            /\ \A s \in SourceSet : agent[j][s].absorbed => agent[j][s].pc = "done"
            /\ Joined(j) =>
                  /\ activeScrapeJobs[j].results = Flat(Contributions(j))
                  /\ activeScrapeJobs[j].results = <<>> => Status(j) = "completed")

C6_Witness ==
    \E j \in Jobs :
        /\ agent[j]["alibaba"].absorbed
        /\ ~agent[j]["thomasnet"].absorbed
        /\ Len(agent[j]["thomasnet"].ret) = 2
        /\ Status(j) = "completed"
        /\ activeScrapeJobs[j].results = agent[j]["thomasnet"].ret

IsErrorEntry(e, message) ==
    /\ e.agentName = "System"
    /\ e.action = "Error"
    /\ e.status = "error"
    /\ e.details = message

\* C7: a job is in status error exactly when the promise of runLiveScrapeJob was
\* rejected, and then the last entry of its log is the System error entry that
\* carries the exception's message; a scraper's absorbed failure never does it.
C7_ErrorIffOrchestrationRejected ==
    \A j \in Jobs :
        /\ Status(j) = "error" <=> orch[j].rejection # ""
        /\ Status(j) = "error" =>
              /\ Joined(j)
              /\ activeScrapeJobs[j].logs # <<>>
              /\ IsErrorEntry(activeScrapeJobs[j].logs[Len(activeScrapeJobs[j].logs)],
                              orch[j].rejection)

C7_Witness ==
    \E j \in Jobs :
        /\ Status(j) = "error"
        /\ orch[j].rejection = "setSessionResults failed"

\* C8: a status or logs poll answers 404 exactly for a job id that no start request
\* has handed out, and a registered job is never removed from the registry.
C8_NotFoundIffNeverIssued ==
    /\ [](Pollable =>
            \A id \in Jobs :
                /\ StatusReply(id).code = 404 <=> httpReply[id] = NoReply
                /\ LogsReply(id).code = 404 <=> httpReply[id] = NoReply
                /\ StatusReply(id).code \in {200, 404}
                /\ LogsReply(id).code \in {200, 404})
    /\ [][\A id \in Jobs :
            activeScrapeJobs[id] # NoJob => activeScrapeJobs'[id] # NoJob]_vars

C8_Witness ==
    /\ Pollable
    /\ StatusReply(1).code = 200
    /\ StatusReply(1).status \in Terminal
    /\ LogsReply(2).code = 404

\* C9: every registered job eventually reaches completed or error, given that
\* every awaited outside operation settles (FairSpec).
C9_EveryJobTerminates ==
    \A j \in Jobs : (Status(j) = "running") ~> (Status(j) \in Terminal)

C9_Witness ==
    \E j \in Jobs, s \in SourceSet :
        /\ Status(j) = "completed"
        /\ agent[j][s].prims = ScraperTurns
        /\ fuel > 0

---------------------------------------------------------------------------
(* Properties of the turn loops *)

Blocked(call) == call.safety = "require_confirmation"

\* the agents whose turn loop is under way: its history and its log are in place
Looping ==
    {agent[j][s] : j \in Jobs, s \in SourceSet} \cup {baseAgent}

InLoop(x) == x.pc \notin {"absent", "idle", "done"}

\* the function calls of the i-th content the for-loop has taken up so far: all of
\* them once the turn's responses were pushed, else the answered ones and the one
\* whose execution is awaited
TakenUp(x, i) ==
    IF i < Len(x.contents) THEN Len(x.contents[i].calls)
    ELSE IF x.contents[i].role # "model" THEN 0
    ELSE Len(x.functionResponses) + (IF x.pending # <<>> THEN 1 ELSE 0)

Answers(x, i) ==
    IF i < Len(x.contents) THEN x.contents[i + 1].parts ELSE x.functionResponses

Calls(x) ==
    {<<i, k>> : i \in 1 .. Len(x.contents), k \in 1 .. MaxCalls} \cap
    {ik \in (1 .. Len(x.contents)) \X (1 .. MaxCalls) : ik[2] <= TakenUp(x, ik[1])}

CallAt(x, ik) == x.contents[ik[1]].calls[ik[2]]

\* C10: in the base turn loop and in the scraper loop alike, a proposed action whose
\* safety decision is require_confirmation is answered with a function response that
\* carries an error (and no screenshot), and it never reaches executeAction: the
\* "Executing action" entries of the agent's log and the browser primitives invoked
\* are exactly those of the other actions the loop has taken up.
C10_BlockedActionNeverExecuted ==
    \A x \in Looping :
        InLoop(x) =>
            /\ \A ik \in Calls(x) :
                  Blocked(CallAt(x, ik)) =>
                      /\ ik[2] <= Len(Answers(x, ik[1]))
                      /\ Answers(x, ik[1])[ik[2]] = BlockedResponse(CallAt(x, ik))
                      /\ Answers(x, ik[1])[ik[2]].error # ""
            /\ Cardinality({n \in 1 .. Len(x.logs) :
                                x.logs[n].action = "Executing action"})
                 = Cardinality({ik \in Calls(x) : ~Blocked(CallAt(x, ik))})
            /\ x.prims
                 = Cardinality({ik \in Calls(x) :
                                    /\ ~Blocked(CallAt(x, ik))
                                    /\ CallAt(x, ik).name \in KnownActions \ NoPrimitive})

C10_Witness ==
    /\ baseAgent.pc = "model"
    /\ Len(baseAgent.contents) = 3
    /\ Len(baseAgent.contents[2].calls) = 2
    /\ Blocked(baseAgent.contents[2].calls[1])
    /\ ~Blocked(baseAgent.contents[2].calls[2])
    /\ baseAgent.contents[3].parts[1].error # ""
    /\ baseAgent.contents[3].parts[2].screenshot
    /\ baseAgent.prims = 1

---------------------------------------------------------------------------
(* Properties of runTask *)

Last(s) == s[Len(s)]

\* the entries of an agent's own log with this action
Logged(x, action) == {n \in 1 .. Len(x.logs) : x.logs[n].action = action}

\* decision round-trips of the run: "Turn n/max" is logged right before each
DecisionCalls(x) == Cardinality(Logged(x, "Turn"))

\* the step in which generateContent settles with a response without function calls
ZeroActionAnswer ==
    /\ baseAgent.pc = "model"
    /\ Len(baseAgent'.contents) > Len(baseAgent.contents)
    /\ baseAgent'.contents[Len(baseAgent.contents) + 1].role = "model"
    /\ baseAgent'.contents[Len(baseAgent.contents) + 1].calls = <<>>

\* C11: at the first turn whose decision response carries no action runTask leaves
\* its loop completed: the step logs "Task completed", executes nothing, goes to the
\* teardown with {success: true, result: the response's text} as its value, and from
\* there no decision call is made; the turn of that response was the run's last
\* (after an answer without actions on turn 1 the run has made one decision call),
\* and a teardown that goes through hands that value to the caller.
C11_ZeroActionsCompleteTheRun ==
    /\ [][ZeroActionAnswer =>
            /\ baseAgent'.pc = "close"
            /\ Len(baseAgent'.contents) = Len(baseAgent.contents) + 1
            /\ baseAgent'.final = TaskReturn(TRUE, TRUE, Last(baseAgent'.contents).text)
            /\ Last(baseAgent'.logs).action = "Task completed"
            /\ Last(baseAgent'.logs).status = "completed"
            /\ baseAgent'.executed = baseAgent.executed
            /\ baseAgent'.prims = baseAgent.prims
            /\ Logged(baseAgent', "Executing action") = Logged(baseAgent, "Executing action")
            /\ DecisionCalls(baseAgent') = baseAgent.turn + 1
            /\ DecisionCalls(baseAgent') = DecisionCalls(baseAgent)]_vars
    /\ [][baseAgent.pc = "close" =>
            /\ baseAgent'.pc \in {"close", "idle"}
            /\ DecisionCalls(baseAgent') = DecisionCalls(baseAgent)
            /\ baseAgent'.executed = baseAgent.executed
            /\ (baseAgent'.pc = "idle" /\ ~baseAgent'.browser) =>
                    baseAgent'.returned = baseAgent.final]_vars

C11_Witness ==
    /\ baseAgent.pc = "idle"
    /\ baseAgent.returned = TaskReturn(TRUE, TRUE, Sentinel)
    /\ DecisionCalls(baseAgent) = 1
    /\ baseAgent.executed = 0

ModelContents(x) == {i \in 1 .. Len(x.contents) : x.contents[i].role = "model"}

\* runTask has left its loop, every decision response so far carried an action and
\* nothing threw: no catch, no empty response, no response without actions
RanOnActionsOnly(x) ==
    /\ x.pc = "close"
    /\ x.final.success
    /\ Logged(x, "No response from model") = {}
    /\ \A i \in ModelContents(x) : x.contents[i].calls # <<>>

\* C12: runTask makes one decision round-trip per turn whatever the number of
\* actions of a response: never more than maxTurns, in the middle of turn n exactly
\* n, and when every response carried an action and nothing failed exactly maxTurns
\* by the time the loop is left.
C12_ExactlyMaxTurnsDecisionCalls ==
    /\ DecisionCalls(baseAgent) <= baseAgent.maxTurns
    /\ baseAgent.pc \in {"model", "exec", "shot"} =>
            /\ DecisionCalls(baseAgent) = baseAgent.turn + 1
            /\ Cardinality(ModelContents(baseAgent)) =
                  IF baseAgent.pc = "model" THEN baseAgent.turn ELSE baseAgent.turn + 1
    /\ RanOnActionsOnly(baseAgent) =>
            /\ DecisionCalls(baseAgent) = baseAgent.maxTurns
            /\ Cardinality(ModelContents(baseAgent)) = baseAgent.maxTurns
            /\ baseAgent.turn = baseAgent.maxTurns
            /\ baseAgent.final = TaskReturn(TRUE, FALSE, <<>>)

C12_Witness ==
    /\ RanOnActionsOnly(baseAgent)
    /\ baseAgent.maxTurns = DefaultMaxTurns
    /\ DecisionCalls(baseAgent) = DefaultMaxTurns
    /\ baseAgent.executed = DefaultMaxTurns

\* C13: a runTask call that finds a run of the instance under way is refused: it
\* starts no run and changes nothing of the agent or of the run under way (the
\* model counts the refusal); a run is marked running from its call to its end, so
\* no second run is ever started beside it and the instance never holds two browsers.
C13_RunTaskIsSingleFlight ==
    /\ [][baseAgent.isRunning =>
            /\ baseAgent'.runs = baseAgent.runs
            /\ baseAgent'.refusals # baseAgent.refusals =>
                  baseAgent' = [baseAgent EXCEPT !.refusals = @ + 1]]_vars
    /\ [][baseAgent'.runs # baseAgent.runs =>
            /\ baseAgent.pc = "idle"
            /\ baseAgent'.runs = baseAgent.runs + 1
            /\ baseAgent'.refusals = baseAgent.refusals]_vars
    /\ [](/\ InLoop(baseAgent) => baseAgent.isRunning
          /\ baseAgent.live <= 1
          /\ baseAgent.launches <= 1)

C13_Witness ==
    /\ baseAgent.refusals = 1
    /\ baseAgent.runs = 1
    /\ baseAgent.pc = "shot"
    /\ baseAgent.isRunning

\* C14: of the calls made on one scraping agent at most one is under way at any
\* moment, and a call operates only the page, and closes only the browser, that it
\* launched itself.
C14_ScraperIsSingleFlight ==
    /\ Cardinality({c \in Callers : scraper.call[c].pc \notin {"none", "returned"}}) <= 1
    /\ \A c \in Callers : /\ scraper.call[c].used \subseteq {c}
                          /\ scraper.call[c].closed \in {0, c}

\* C15: a run of runTask launches at most one browser and calls browser.close() on
\* it at most once, and never on a browser it did not launch; when runTask has
\* settled, the browser the run launched has had its close() call, and when runTask
\* has returned its result the agent holds no browser any more.
C15_RunTaskClosesItsBrowserOnce ==
    baseAgent # NoAgent =>
        /\ baseAgent.closes <= baseAgent.launches
        /\ baseAgent.launches <= 1
        /\ baseAgent.pc = "idle" /\ baseAgent.runs > 0 =>
              /\ baseAgent.closes = baseAgent.launches
              /\ baseAgent.returned.kind = "return" =>
                    ~baseAgent.browser /\ baseAgent.live = 0

C15_Witness ==
    /\ baseAgent # NoAgent
    /\ baseAgent.pc = "idle"
    /\ baseAgent.returned.kind = "return"
    /\ ~baseAgent.returned.success
    /\ baseAgent.launches = 1
    /\ baseAgent.closes = 1
    /\ baseAgent.executed > 0
    /\ Logged(baseAgent, "Task failed") # {}

\* C16: when a scraper's search entry point has returned, every browser the run
\* launched has had its close() call, exactly one each.
C16_ScraperClosesEveryBrowser ==
    \A j \in Jobs, s \in SourceSet :
        /\ agent[j][s].closes <= agent[j][s].launches
        /\ agent[j][s].pc = "done" => agent[j][s].closes = agent[j][s].launches

\* C17: every executeAction call that has returned went through the settling waits
\* (network idle, then the fixed pause) before it returned.
C17_EveryActionSettlesThePage ==
    \A x \in Looping : x.settles = x.executed

\* C18: no exception leaves executeAction: whatever the action and the state of the
\* agent it is called in, the call returns a {success, error?} value, and a
\* primitive that failed is reported as an error in it.
C18_ExecutorNeverThrows ==
    /\ \A x \in Looping : /\ ~x.escaped
                          /\ x.pc = "shot" =>
                                x.result \in {"", "primitive failed", "Unknown action"}
    /\ \A c \in Callers : ~scraper.call[c].escaped

\* executeAction has returned {success: false, error} to the loop of agent x
FailedAction(x) == x.pc = "shot" /\ x.result # ""

\* the run of agent y is ending on an exception
Aborted(y) == y.completion.kind = "throw" \/ Logged(y, "Task failed") # {}

IsSuffix(s, t) == \E k \in 0 .. Len(t) : s = SubSeq(t, k + 1, Len(t))

\* agent x, holding a failed action's result, steps to y: unless the screenshot that
\* follows throws, the action's response carries the error and either a remaining
\* action of the turn is being executed or the turn's responses, one per remaining
\* action, were pushed and the loop went to its next turn
GoesOn(x, y) ==
    LET done == Append(x.functionResponses,
                       [name |-> Head(x.pending).name, error |-> x.result,
                        screenshot |-> TRUE])
    IN  \/ /\ Aborted(y)
           /\ \A n \in Logged(y, "Task failed") : y.logs[n].details = "screenshot failed"
           /\ y.executed = x.executed
           /\ Len(y.contents) = Len(x.contents)
        \/ /\ ~Aborted(y)
           /\ \/ /\ y.pc \in {"exec", "shot"}
                 /\ y.executed \in {x.executed, x.executed + 1}
                 /\ y.pending # <<>>
                 /\ IsSuffix(y.pending, Tail(x.pending))
                 /\ IsPrefix(done, y.functionResponses)
                 /\ Len(y.functionResponses) + Len(y.pending) =
                        Len(done) + Len(Tail(x.pending))
              \/ /\ y.turn = x.turn + 1
                 /\ Len(y.contents) = Len(x.contents) + 1
                 /\ IsPrefix(done, Last(y.contents).parts)
                 /\ Len(Last(y.contents).parts) = Len(done) + Len(Tail(x.pending))
                 /\ \/ y.pc = "model"
                    \/ x.turn + 1 >= x.maxTurns /\ y.pc = "close" /\ y.final.success
                    \/ x.turn + 1 >= ScraperTurns /\ y.pc = "extract"

\* C19: an action that failed in the executor does not end the run: its function
\* response carries the error, the remaining actions of the response are processed
\* and the loop goes to its next turn; the run ends at that point only if the
\* screenshot taken after the action throws.  (A runTask call refused meanwhile is
\* no step of the run.)
C19_FailedActionDoesNotAbort ==
    /\ [][FailedAction(baseAgent) /\ baseAgent'.refusals = baseAgent.refusals =>
            GoesOn(baseAgent, baseAgent')]_vars
    /\ [][\A j \in Jobs, s \in SourceSet :
            FailedAction(agent[j][s]) /\ agent[j][s]' # agent[j][s] =>
                GoesOn(agent[j][s], agent[j][s]')]_vars

C19_Witness ==
    /\ baseAgent.pc = "model"
    /\ baseAgent.turn = 1
    /\ Len(baseAgent.contents) = 3
    /\ Len(baseAgent.contents[2].calls) = 2
    /\ baseAgent.contents[3].parts[1].error = "Unknown action"
    /\ baseAgent.contents[3].parts[2].error = ""
    /\ baseAgent.executed = 2
    /\ ~Aborted(baseAgent)

\* C20: when the extraction response did not decode as JSON, extractPageData has
\* returned null instead of throwing, so the scraper goes to its finally block with
\* an empty list to return and returns an empty list, and the job's log holds the
\* scraper's "Data extraction failed" entry with status error.
C20_MalformedExtractionYieldsNoData ==
    \A j \in Jobs, s \in SourceSet :
        agent[j][s].extraction = "malformed" =>
            /\ agent[j][s].pc \in {"close", "done"}
            /\ agent[j][s].pc = "close" =>
                  agent[j][s].completion = [kind |-> "return", list |-> <<>>]
            /\ agent[j][s].pc = "done" => agent[j][s].ret = <<>>
            /\ \E n \in 1 .. Len(activeScrapeJobs[j].logs) :
                  /\ activeScrapeJobs[j].logs[n].action = "Data extraction failed"
                  /\ activeScrapeJobs[j].logs[n].status = "error"
                  /\ activeScrapeJobs[j].logs[n].agentName = AgentName(s)

C20_Witness ==
    \E s \in SourceSet :
        /\ agent[1][s].extraction = "malformed"
        /\ agent[1][s].pc = "done"
        /\ ~agent[1][s].absorbed
        /\ agent[1][s].ret = <<>>
        /\ activeScrapeJobs[1].status = "completed"

\* C21: when a scraper's entry point has absorbed an exception (it returned an empty
\* list because of it), the job's log holds an error-status entry carrying that
\* scraper's agent name.
C21_AbsorbedFailureIsLogged ==
    \A j \in Jobs, s \in SourceSet :
        agent[j][s].absorbed =>
            \E n \in 1 .. Len(activeScrapeJobs[j].logs) :
                /\ activeScrapeJobs[j].logs[n].status = "error"
                /\ activeScrapeJobs[j].logs[n].agentName = AgentName(s)

\* n * w / NormRange rounded to the nearest integer, a half going up as in Math.round
Rounded(n, w) == (2 * n * w + NormRange) \div (2 * NormRange)

\* C22: for integer normalised coordinates in [0, 1000] the click lands on
\* round(x / 1000 * 1440), round(y / 1000 * 900); these lie in [0, 1440] and
\* [0, 900], and a coordinate one larger gives a pixel that is no smaller.
C22_TranslationIsRoundedScaling ==
    executor.pc # "idle" =>
        LET x == executor.call.x
            y == executor.call.y
            at == executor.done[1]
        IN  /\ at.x = Rounded(x, SCREEN_WIDTH)
            /\ at.y = Rounded(y, SCREEN_HEIGHT)
            /\ at.x \in 0 .. SCREEN_WIDTH
            /\ at.y \in 0 .. SCREEN_HEIGHT
            /\ x > 0 => Rounded(x - 1, SCREEN_WIDTH) <= at.x
            /\ y > 0 => Rounded(y - 1, SCREEN_HEIGHT) <= at.y

\* the primitives type_text_at is to call for these arguments, in order, up to the
\* wait that follows them
TypeTextPlan(call) ==
    <<[op |-> "mouse.click", x |-> Rounded(call.x, SCREEN_WIDTH),
       y |-> Rounded(call.y, SCREEN_HEIGHT)]>>
    \o (IF call.clear_before_typing = "false" THEN <<>>
        ELSE <<[op |-> "keyboard.press", key |-> "Control+A"],
               [op |-> "keyboard.press", key |-> "Backspace"]>>)
    \o <<[op |-> "keyboard.type", key |-> "text"]>>
    \o (IF call.press_enter = "false" THEN <<>>
        ELSE <<[op |-> "keyboard.press", key |-> "Enter"]>>)
    \o <<[op |-> "waitForLoadState", key |-> "networkidle"]>>

\* C25: the primitives a type_text_at call has made are at every moment a beginning
\* of: click at the translated coordinates, select-all and delete unless
\* clear_before_typing is false, the typing, Enter unless press_enter is false; one
\* is called only when the one before has settled, and a call that succeeded made
\* them all.
C25_TypeTextOrder ==
    /\ [](executor.call.name = "type_text_at" =>
            /\ IsPrefix(executor.done, TypeTextPlan(executor.call))
            /\ executor.result = "success" =>
                  executor.done = TypeTextPlan(executor.call))
    /\ [][executor.call.name = "type_text_at" =>
            \/ executor'.done = executor.done
            \/ /\ Len(executor'.done) = Len(executor.done) + 1
               /\ executor'.pc # "returned"]_vars

C25_Witness ==
    /\ executor.call.name = "type_text_at"
    /\ executor.call.clear_before_typing = "false"
    /\ executor.call.press_enter = "null"
    /\ executor.result = "success"
    /\ Len(executor.done) = 4
    /\ executor.done[3] = [op |-> "keyboard.press", key |-> "Enter"]

\* C23: a job whose status is running has an empty results list; results are not
\* empty before every requested scraper has resolved, so a scraper that finishes
\* first shows nothing in results, while its log entries, up to its "Completed"
\* entry, are already in the log a poll returns.
C23_ResultsAppearAtTheJoin ==
    \A j \in Jobs :
        activeScrapeJobs[j] # NoJob =>
            /\ Status(j) = "running" => activeScrapeJobs[j].results = <<>>
            /\ activeScrapeJobs[j].results # <<>> =>
                  \A s \in orch[j].sources : agent[j][s].pc = "done"
            /\ \A s \in orch[j].sources :
                  agent[j][s].pc = "done" =>
                      \E n \in 1 .. Len(LogsReply(j).logs) :
                          /\ LogsReply(j).logs[n].agentName = AgentName(s)
                          /\ LogsReply(j).logs[n].action = "Completed"

C23_Witness ==
    \E j \in Jobs :
        /\ Pollable
        /\ orch[j].sources = SourceSet
        /\ StatusReply(j).status = "running"
        /\ agent[j]["alibaba"].pc = "done"
        /\ Len(agent[j]["alibaba"].ret) = 2
        /\ agent[j]["thomasnet"].pc \notin {"idle", "done"}
        /\ StatusReply(j).results = <<>>
        /\ \E n \in 1 .. Len(StatusReply(j).logs) :
              /\ StatusReply(j).logs[n].agentName = "Alibaba Scraper"
              /\ StatusReply(j).logs[n].action = "Completed"

\* job j's own orchestration (its POST handler, runLiveScrapeJob or one of its
\* scrapers) takes a step
Moves(j) == orch'[j] # orch[j] \/ agent'[j] # agent[j] \/ httpReply'[j] # httpReply[j]

\* C24: a status or logs request leaves every job's status, logs and results as they
\* were; a step that changes a job's record is a step of that job's own
\* orchestration, and no other job moves or changes in it.
C24_JobsAreWrittenOnlyByTheirOwnRun ==
    /\ [][polls' # polls =>
            /\ activeScrapeJobs' = activeScrapeJobs
            /\ \A j \in Jobs : ~Moves(j)]_vars
    /\ [][\A b \in Jobs :
            activeScrapeJobs'[b] # activeScrapeJobs[b] =>
                /\ Moves(b)
                /\ \A a \in Jobs \ {b} :
                      ~Moves(a) /\ activeScrapeJobs'[a] = activeScrapeJobs[a]]_vars

C24_Witness ==
    /\ polls = 1
    /\ \A j \in Jobs :
          /\ activeScrapeJobs[j] # NoJob
          /\ Len(activeScrapeJobs[j].logs) > 2
    /\ Status(1) = "completed"
    /\ Status(2) = "running"

\* the scraper's turn loop is running: a decision, an action or its screenshot is
\* awaited
InTurn(x) == x.pc \in {"model", "exec", "shot"}

\* scraper x steps to y and its loop ends there in one of the four ways: a response
\* with a sentinel text or without function calls was pushed, the turn limit was
\* reached with the last turn's responses pushed, or callModel returned null
LoopExits(x, y) ==
    /\ InTurn(x)
    /\ ~InTurn(y)
    /\ \/ /\ x.pc = "model"
          /\ Len(y.contents) = Len(x.contents) + 1
          /\ HasSentinel(Last(y.contents).text) \/ Last(y.contents).calls = <<>>
       \/ /\ x.pc = "shot"
          /\ Len(y.contents) = Len(x.contents) + 1
          /\ y.turn = ScraperTurns
       \/ /\ x.pc = "model"
          /\ y.contents = x.contents
          /\ y.completion.kind # "throw"
          /\ ~y.absorbed

\* C26: a scraper calls extractPageData at most once in a run, in the step in which
\* its turn loop ends (by a sentinel text, a response without actions, a null
\* response or the 15th turn), never before or while the loop runs, and with the
\* browser still open and no close() called; a run that ended without an exception
\* has called it exactly once.
C26_ExtractionOnceAfterTheLoop ==
    /\ [](\A j \in Jobs, s \in SourceSet :
            LET x == agent[j][s]
            IN  /\ x.extracts <= 1
                /\ x.pc \in {"idle", "initialize", "goto", "model", "exec", "shot"} =>
                      x.extracts = 0
                /\ x.pc = "extract" => x.extracts = 1 /\ x.browser /\ x.closes = 0
                /\ x.pc = "done" /\ ~x.absorbed => x.extracts = 1)
    /\ [][\A j \in Jobs, s \in SourceSet :
            /\ LoopExits(agent[j][s], agent'[j][s]) =>
                  agent'[j][s].pc = "extract" /\ agent'[j][s].extracts = 1
            /\ agent'[j][s].extracts # agent[j][s].extracts =>
                  InTurn(agent[j][s]) /\ agent'[j][s].pc = "extract"]_vars

C26_Witness ==
    \E j \in Jobs, s \in SourceSet :
        /\ agent[j][s].pc = "extract"
        /\ agent[j][s].turn = ScraperTurns
        /\ agent[j][s].extracts = 1
        /\ agent[j][s].browser

Appended == SubSeq(baseAgent'.logs, Len(baseAgent.logs) + 1, Len(baseAgent'.logs))

\* the step of runTask that ends the last turn the limit allows
Exhausts ==
    /\ baseAgent # NoAgent
    /\ baseAgent.pc \notin {"idle", "close"}
    /\ baseAgent.turn < baseAgent.maxTurns
    /\ baseAgent'.turn = baseAgent.maxTurns

Inconclusive == TaskReturn(TRUE, FALSE, <<>>)

\* C28: when the turn counter reaches maxTurns, runTask leaves the loop with the
\* value success = true and no result, makes no further decision call, and logs
\* nothing for it: the only error entries of that step are those of blocked actions
\* of the last turn.  The teardown that goes through hands that value to the caller
\* and leaves the log as it was.
C28_ExhaustionIsNotAnError ==
    /\ [][Exhausts =>
            /\ baseAgent'.pc = "close"
            /\ baseAgent'.final = Inconclusive
            /\ DecisionCalls(baseAgent') = DecisionCalls(baseAgent)
            /\ \A k \in 1 .. Len(Appended) :
                  /\ Appended[k].action \notin {"Task failed", "No response from model"}
                  /\ Appended[k].status = "error" =>
                        Appended[k].action = "Safety confirmation required"]_vars
    /\ [][(baseAgent # NoAgent /\ baseAgent.pc = "close"
            /\ baseAgent.final = Inconclusive
            /\ baseAgent'.pc = "idle" /\ ~baseAgent'.browser) =>
                /\ baseAgent'.returned = Inconclusive
                /\ \A k \in 1 .. Len(Appended) : Appended[k].status # "error"]_vars

C28_Witness ==
    /\ baseAgent # NoAgent
    /\ baseAgent.pc = "idle"
    /\ baseAgent.returned = Inconclusive
    /\ baseAgent.maxTurns = DefaultMaxTurns
    /\ DecisionCalls(baseAgent) = DefaultMaxTurns
    /\ \A k \in 1 .. Len(baseAgent.logs) : baseAgent.logs[k].status # "error"

\* the step of runTask in which the decision call settles without a candidate: no
\* content is pushed and nothing is thrown
NoUsableResponse ==
    /\ baseAgent # NoAgent
    /\ baseAgent.pc = "model"
    /\ baseAgent'.pc = "close"
    /\ baseAgent'.contents = baseAgent.contents
    /\ baseAgent'.final.success

\* C29: when the decision call returns no candidate, runTask leaves the loop as it
\* does on running out of turns: the value is success = true without a result, no
\* further decision call is made and no action executed, and no error entry is
\* logged for it.
C29_NoResponseIsNotAnError ==
    [][NoUsableResponse =>
        /\ baseAgent'.final = Inconclusive
        /\ DecisionCalls(baseAgent') = DecisionCalls(baseAgent)
        /\ baseAgent'.executed = baseAgent.executed
        /\ baseAgent'.prims = baseAgent.prims
        /\ \A k \in 1 .. Len(Appended) : Appended[k].status # "error"]_vars

\* scraper x steps to y on a decision response that proposes actions and whose text
\* holds one of the words
Marked(x, y, words) ==
    /\ x.pc = "model"
    /\ Len(y.contents) = Len(x.contents) + 1
    /\ Last(y.contents).calls # <<>>
    /\ \E k \in 1 .. Len(Last(y.contents).text) : Last(y.contents).text[k] \cap words # {}

\* the loop ends in that step: nothing of the response is executed and the
\* extraction starts
Stops(x, y) ==
    /\ y.pc = "extract"
    /\ y.extracts = x.extracts + 1
    /\ y.turn = x.turn
    /\ y.executed = x.executed
    /\ y.prims = x.prims
    /\ y.pending = x.pending

\* once out of the loop a scraper makes no decision call and executes nothing
Over(x, y) ==
    x.pc \in {"extract", "close", "done"} =>
        /\ y.pc \in {"extract", "close", "done"}
        /\ y.executed = x.executed
        /\ y.prims = x.prims

\* C30 as stated: a response whose text contains "done", "visible" or "results"
\* stops the scraper loop at that turn even when it proposes actions: no action of
\* it is executed, no further decision call is made, extraction follows.
C30_SentinelStopsTheLoop ==
    [][\A j \in Jobs, s \in SourceSet :
        /\ Marked(agent[j][s], agent'[j][s], {"done", "visible", "results"}) =>
                Stops(agent[j][s], agent'[j][s])
        /\ Over(agent[j][s], agent'[j][s])]_vars

\* C30 amended: the words are "DONE" (in capitals), "visible" and "results",
\* compared with their case.
C30_CapitalSentinelStopsTheLoop ==
    [][\A j \in Jobs, s \in SourceSet :
        /\ Marked(agent[j][s], agent'[j][s], {"DONE", "visible", "results"}) =>
                Stops(agent[j][s], agent'[j][s])
        /\ Over(agent[j][s], agent'[j][s])]_vars

C30_Witness ==
    \E j \in Jobs, s \in SourceSet :
        LET x == agent[j][s]
        IN  /\ x.pc = "extract"
            /\ x.contents # <<>>
            /\ Last(x.contents).text = Sentinel
            /\ Last(x.contents).calls # <<>>
            /\ x.executed = 0

\* the entries of a log that one agent emitted, in the log's order
EntriesOf(logs, name) == SelectSeq(logs, LAMBDA e : e.agentName = name)

\* C31: a job's log holds every entry emitted for the job exactly once, in the
\* order of emission whoever emitted it (the k-th entry of the log is the k-th
\* entry emitted), so the entries of two scrapers running together interleave and
\* the entries of each scraper are in the order the scraper emitted them.
C31_LogIsInEmissionOrder ==
    \A j \in Jobs :
        LET logs == activeScrapeJobs[j].logs
        IN  /\ Len(logs) = uuid[j]
            /\ \A k \in 1 .. Len(logs) : logs[k].id = <<j, k>>
            /\ \A s \in SourceSet :
                  LET own == EntriesOf(logs, AgentName(s))
                  IN  \A x, y \in 1 .. Len(own) : x < y => own[x].id[2] < own[y].id[2]

C31_Witness ==
    \E j \in Jobs :
        LET logs == activeScrapeJobs[j].logs
        IN  \E x, y, z \in 1 .. Len(logs) :
                /\ x < y /\ y < z
                /\ logs[x].agentName = "Alibaba Scraper"
                /\ logs[y].agentName = "ThomasNet Scraper"
                /\ logs[z].agentName = "Alibaba Scraper"
                /\ agent[j]["thomasnet"].pc \notin {"idle", "done"}
                /\ agent[j]["alibaba"].pc \notin {"idle", "done"}

\* the function results answer the first calls of the list one for one, in their
\* order: a blocked call by its error response, another by a response with the
\* screenshot taken after it
AnswersInOrder(results, calls) ==
    /\ Len(results) <= Len(calls)
    /\ \A m \in 1 .. Len(results) :
          /\ results[m].name = calls[m].name
          /\ IF Blocked(calls[m]) THEN results[m] = BlockedResponse(calls[m])
             ELSE results[m].screenshot

\* C32: the k >= 1 actions of a response are handled one after another in the
\* proposed order; the history gets exactly one user entry for them, holding
\* exactly k function results in that order (the error response for a blocked
\* action), and the next decision call is made only when that entry is there:
\* while an action or its screenshot is awaited the results so far answer the
\* first calls and the rest of the calls, in order, is still to do.
C32_OneUserEntryPerTurn ==
    \A x \in Looping :
        InLoop(x) =>
            /\ \A i \in 1 .. Len(x.contents) - 1 :
                  (x.contents[i].role = "model" /\ x.contents[i].calls # <<>>) =>
                      /\ x.contents[i + 1].role = "user"
                      /\ Len(x.contents[i + 1].parts) = Len(x.contents[i].calls)
                      /\ AnswersInOrder(x.contents[i + 1].parts, x.contents[i].calls)
            /\ \A i \in 2 .. Len(x.contents) :
                  x.contents[i].role = "user" =>
                      x.contents[i - 1].role = "model" /\ x.contents[i - 1].calls # <<>>
            /\ x.pc \in {"exec", "shot"} =>
                  /\ Last(x.contents).role = "model"
                  /\ AnswersInOrder(x.functionResponses, Last(x.contents).calls)
                  /\ x.pending # <<>>
                  /\ x.pending = SubSeq(Last(x.contents).calls,
                                        Len(x.functionResponses) + 1,
                                        Len(Last(x.contents).calls))
            /\ x.pc = "model" =>
                  /\ Last(x.contents).role = "user"
                  /\ x.pending = <<>>
                  /\ x.functionResponses = <<>>

C32_Witness ==
    \E j \in Jobs, s \in SourceSet :
        LET x == agent[j][s]
        IN  /\ x.pc = "model"
            /\ Len(x.contents) = 3
            /\ Len(x.contents[2].calls) = 2
            /\ ~Blocked(x.contents[2].calls[1])
            /\ Blocked(x.contents[2].calls[2])
            /\ Len(x.contents[3].parts) = 2

\* the entries of the panel that came from the server
FromServer(logs) == SelectSeq(logs, LAMBDA l : l.id[1] # 0)

\* C33: whatever the order in which the status responses arrive, the client's panel
\* never holds an entry id twice, its server entries are the first entries of the
\* job's log in the log's order, and once a response with a terminal status has been
\* taken in the panel holds every entry of that response.
C33_ClientShowsEachEntryOnce ==
    /\ UniqueIds(client.agentLogs)
    /\ client.polled = 0 => FromServer(client.agentLogs) = <<>>
    /\ client.polled # 0 =>
          IsPrefix(FromServer(client.agentLogs), activeScrapeJobs[client.polled].logs)
    /\ client.observed \subseteq
          {client.agentLogs[k].id : k \in 1 .. Len(client.agentLogs)}
    /\ client.pc = "stopped" => client.observed # {}

C33_Witness ==
    /\ client.pc = "stopped"
    /\ client.stale >= 1
    /\ client.flight = {}
    /\ client.asked = MaxClientPolls
    /\ Len(FromServer(client.agentLogs)) >= 5
    /\ client.made = 2

\* the positions of the "Search completed" entries of a log
Summaries(logs) ==
    {k \in 1 .. Len(logs) :
        logs[k].agentName = "System" /\ logs[k].action = "Search completed"}

\* C34: a status poll that returns completed returns with it the merged results
\* (the lists of the requested scrapers, all resolved, in request order) and a log
\* that holds the one "Search completed" entry, which counts those results; a poll
\* that returns running returns no such entry and no result.
C34_CompletionIsOneSnapshot ==
    \A id \in Jobs :
        LET reply == StatusReply(id) IN
        /\ (Pollable /\ reply.code = 200 /\ reply.status = "completed") =>
              /\ Cardinality(Summaries(reply.logs)) = 1
              /\ \A k \in Summaries(reply.logs) :
                    /\ reply.logs[k].status = "completed"
                    /\ reply.logs[k].n = Len(reply.results)
              /\ \A s \in orch[id].sources : agent[id][s].pc = "done"
              /\ reply.results = Flat(Contributions(id))
        /\ (Pollable /\ reply.code = 200 /\ reply.status = "running") =>
              /\ Summaries(reply.logs) = {}
              /\ reply.results = <<>>

C34_Witness ==
    \E id \in Jobs :
        /\ Pollable
        /\ StatusReply(id).status = "completed"
        /\ orch[id].sources = SourceSet
        /\ Len(StatusReply(id).results) = 2
        /\ Summaries(StatusReply(id).logs) = {Len(StatusReply(id).logs)}

\* the positions of the "Completed" entries of a scraper in a log
Finishes(logs, s) ==
    {k \in 1 .. Len(logs) : logs[k].agentName = AgentName(s) /\ logs[k].action = "Completed"}

\* C35: in a job's results every record of Alibaba precedes every record of
\* ThomasNet, whichever scraper resolved first, and the records of a source are in
\* the order its scraper returned them.
C35_MergeOrderIsRequestOrder ==
    \A j \in Jobs :
        LET res == activeScrapeJobs[j].results IN
        /\ \A x, y \in 1 .. Len(res) :
              x < y =>
                  /\ res[x][1] = "thomasnet" => res[y][1] = "thomasnet"
                  /\ res[x][1] = res[y][1] => res[x][2] < res[y][2]
        /\ \A s \in SourceSet :
              SelectSeq(res, LAMBDA r : r[1] = s) =
                  IF Joined(j) /\ s \in orch[j].sources THEN agent[j][s].ret ELSE <<>>

C35_Witness ==
    \E j \in Jobs :
        LET res == activeScrapeJobs[j].results
            logs == activeScrapeJobs[j].logs
        IN  /\ Len(res) = 2
            /\ res[1][1] = "alibaba"
            /\ res[2][1] = "thomasnet"
            /\ \E a \in Finishes(logs, "alibaba"), t \in Finishes(logs, "thomasnet") : t < a

\* C36: a job id is sent to the caller only for a job that is registered and
\* running, and whenever a poll can be served after that reply the job is found
\* (no 404) and its log is not empty: its first entry is the System entry
\* "Starting live supplier search", and it stays the first.
C36_StartedBeforeAnyPoll ==
    /\ [](\A j \in Jobs :
            httpReply[j] # NoReply =>
                /\ httpReply[j].jobId = j
                /\ activeScrapeJobs[j] # NoJob
                /\ Pollable =>
                      /\ StatusReply(j).code = 200
                      /\ LogsReply(j).code = 200
                      /\ StatusReply(j).logs # <<>>
                      /\ LogsReply(j).logs[1].agentName = "System"
                      /\ LogsReply(j).logs[1].action = "Starting live supplier search"
                      /\ LogsReply(j).logs[1].id = <<j, 1>>)
    /\ [][\A j \in Jobs :
            (httpReply[j] = NoReply /\ httpReply'[j] # NoReply) =>
                /\ activeScrapeJobs[j] # NoJob
                /\ Status(j) = "running"
                /\ ~Pollable']_vars

C36_Witness ==
    \E j \in Jobs :
        /\ Pollable
        /\ httpReply[j].code = 200
        /\ orch[j].sources = SourceSet
        /\ \A s \in SourceSet : agent[j][s].pc = "initialize"
        /\ Len(StatusReply(j).logs) >= 1
        /\ StatusReply(j).logs[1].action = "Starting live supplier search"
        /\ StatusReply(j).status = "running"

\* C37: once a runTask call has settled, by a value or by an exception, the
\* agent's running flag is false (the next runTask would be accepted), and the step
\* that settles the call is the one that leaves it so.
C37_SettledRunClearsTheFlag ==
    /\ [](baseAgent # NoAgent /\ baseAgent.pc = "idle" => ~baseAgent.isRunning)
    /\ [][(baseAgent # NoAgent /\ baseAgent.pc # "idle" /\ baseAgent'.pc = "idle") =>
            /\ baseAgent'.returned # NoReturn
            /\ ~baseAgent'.isRunning]_vars

\* a runTask call is refused in this step
Refused == baseAgent # NoAgent /\ baseAgent'.refusals = baseAgent.refusals + 1

\* C38: a runTask call refused by the guard leaves the run under way as it is: the
\* running flag stays set, the agent's log is neither emptied nor added to, the
\* browser and its page stay open with no close() called, and the run stays where
\* it was.
C38_RefusalLeavesTheRunAlone ==
    [][Refused =>
        /\ baseAgent.isRunning /\ baseAgent'.isRunning
        /\ baseAgent'.logs = baseAgent.logs
        /\ baseAgent'.uuids = baseAgent.uuids
        /\ baseAgent'.browser = baseAgent.browser
        /\ baseAgent'.page = baseAgent.page
        /\ baseAgent'.live = baseAgent.live
        /\ baseAgent'.closes = baseAgent.closes
        /\ baseAgent'.pc = baseAgent.pc
        /\ baseAgent'.turn = baseAgent.turn
        /\ baseAgent'.contents = baseAgent.contents]_vars

C38_Witness ==
    /\ baseAgent # NoAgent
    /\ baseAgent.refusals = 1
    /\ baseAgent.isRunning
    /\ baseAgent.browser
    /\ baseAgent.pc = "exec"
    /\ baseAgent.logs # <<>>
    /\ baseAgent.closes = 0

\* the entries a step appends to the log of job j
Added(j) ==
    SubSeq(activeScrapeJobs'[j].logs, Len(activeScrapeJobs[j].logs) + 1,
           Len(activeScrapeJobs'[j].logs))

\* C39: once the "Search completed" entry is in a job's log no scraper adds an
\* entry to it: every requested scraper has resolved by then, its "Browser closed"
\* and "Completed" entries come before the summary, and what is appended later
\* comes from the System.
C39_NoScraperEntryAfterTheSummary ==
    /\ [](\A j \in Jobs :
            LET logs == activeScrapeJobs[j].logs IN
            \A k \in Summaries(logs) :
                /\ \A s \in orch[j].sources : agent[j][s].pc = "done"
                /\ \A s \in orch[j].sources : \E n \in Finishes(logs, s) : n < k
                /\ \A n \in 1 .. Len(logs) : n > k => logs[n].agentName = "System")
    /\ [][\A j \in Jobs :
            (activeScrapeJobs[j] # NoJob /\ Summaries(activeScrapeJobs[j].logs) # {}) =>
                /\ \A n \in 1 .. Len(Added(j)) : Added(j)[n].agentName = "System"
                /\ agent'[j] = agent[j]]_vars

C39_Witness ==
    \E j \in Jobs :
        LET logs == activeScrapeJobs[j].logs IN
        /\ orch[j].sources = SourceSet
        /\ Summaries(logs) = {Len(logs)}
        /\ \A s \in SourceSet :
              \E n \in 1 .. Len(logs) - 1 :
                  /\ logs[n].agentName = AgentName(s)
                  /\ logs[n].action = "Browser closed"
                  /\ logs[n + 1].agentName = AgentName(s)
                  /\ logs[n + 1].action = "Completed"

\* a start request is turned down, or waits for its session, in this step
TurnsDown == rejected' # rejected

\* C40: a start request that is turned down (body that does not parse, unknown
\* session, session without an analysed product, storage failure) is answered 400,
\* 404 or 500 and changes nothing of the registry: no job is created, none is
\* changed, no scraper is started and no job id is handed out.
C40_RejectedRequestCreatesNoJob ==
    /\ [][TurnsDown =>
            /\ activeScrapeJobs' = activeScrapeJobs
            /\ agent' = agent
            /\ orch' = orch
            /\ httpReply' = httpReply
            /\ uuid' = uuid]_vars
    /\ [](/\ \A k \in 1 .. Len(rejected) : rejected[k].code \in {0, 400, 404, 500}
          /\ \A j \in Jobs : activeScrapeJobs[j] # NoJob <=> orch[j].pc # "none")

C40_Witness ==
    /\ Len(rejected) = 2
    /\ rejected[1].code = 404
    /\ rejected[2].code = 400
    /\ rejected[2].fault = "no product"
    /\ Registered = {1}
    /\ Status(1) = "running"

====
